---- MODULE Spec2Model ----
(***************************************************************************)
(* Model of datastar-ssegen (src/index.js): the object returned by         *)
(* ServerSentEventGenerator(request, response), its event encoder _send    *)
(* the five command builders and the signal reader ReadSignals.            *)
(*                                                                         *)
(* JavaScript values are tagged tuples (<<"undefined">>, <<"null">>,       *)
(* <<"number", n>>, <<"string", chars>>, <<"boolean", b>>,                 *)
(* <<"array", elems>>, <<"object", pairs>>).  A string is the sequence of  *)
(* its characters, so that rendering, stripping and scanning are computed  *)
(* character by character as the code computes them.  An object is the     *)
(* sequence of its <<key, value>> pairs in insertion order.                *)
(***************************************************************************)
EXTENDS Integers, Sequences, FiniteSets

VARIABLES
  isBun,        \* process.isBun of the runtime (index.js:120)
  res,          \* res[c]: what the context is bound to as response (index.js:89)
  headers,      \* headers[c]: the context's header set (index.js:83-87)
  headersSent,  \* headersSent[c]: the context's flag (index.js:82)
  resLog,       \* resLog[c]: the calls made on the response, in order
  last,         \* the most recent call: its context, arguments and outcome
  req,          \* the request a context is bound to (index.js:88)
  read,         \* the promise of the ReadSignals call on that context
  stream,       \* the request's body stream: what it emitted, what was kept
  backendStore, \* the signals a handler keeps between requests (commonHandlers.js:4)
  served        \* the number of requests whose signals the handler has stored

vars == <<isBun, res, headers, headersSent, resLog, last, req, read, stream,
          backendStore, served>>

\* ------------------------------------------------------------------ bounds

NumCtx == 2
MaxWrites == 3
MaxChunks == 3
MaxRequests == 2

Ctx == 1..NumCtx

\* ------------------------------------------------------- JavaScript values

LF == "\n"
CR == "\r"

Undefined == <<"undefined">>
Null == <<"null">>
Num(n) == <<"number", n>>
Str(s) == <<"string", s>>
Bool(b) == <<"boolean", b>>
Arr(a) == <<"array", a>>
Obj(pairs) == <<"object", pairs>>

TypeOf(v) == v[1]

\* v != null  (loose inequality: false for null and for undefined)
NotNullish(v) == TypeOf(v) \notin {"undefined", "null"}

\* the truthiness test of `if (v)`
Truthy(v) ==
  CASE TypeOf(v) = "undefined" -> FALSE
    [] TypeOf(v) = "null" -> FALSE
    [] TypeOf(v) = "number" -> v[2] # 0
    [] TypeOf(v) = "string" -> Len(v[2]) > 0
    [] TypeOf(v) = "boolean" -> v[2]
    [] OTHER -> TRUE

\* o.k for an object o: the value of the last pair with key k, else undefined
Get(o, k) ==
  LET hits == {i \in 1..Len(o[2]) : o[2][i][1] = k}
  IN IF hits = {} THEN Undefined
     ELSE o[2][CHOOSE i \in hits : \A j \in hits : j <= i][2]

\* o?.k
OptGet(o, k) == IF NotNullish(o) THEN Get(o, k) ELSE Undefined

DigitChar(d) == <<"0", "1", "2", "3", "4", "5", "6", "7", "8", "9">>[d + 1]

RECURSIVE DecimalDigits(_)
DecimalDigits(n) ==
  IF n < 10 THEN <<DigitChar(n)>>
  ELSE DecimalDigits(n \div 10) \o <<DigitChar(n % 10)>>

\* `${v}` in a template literal
JsString(v) ==
  CASE TypeOf(v) = "undefined" -> <<"u", "n", "d", "e", "f", "i", "n", "e", "d">>
    [] TypeOf(v) = "null" -> <<"n", "u", "l", "l">>
    [] TypeOf(v) = "number" ->
         IF v[2] < 0 THEN <<"-">> \o DecimalDigits(0 - v[2]) ELSE DecimalDigits(v[2])
    [] TypeOf(v) = "string" -> v[2]
    [] TypeOf(v) = "boolean" ->
         IF v[2] THEN <<"t", "r", "u", "e">> ELSE <<"f", "a", "l", "s", "e">>

RECURSIVE Flatten(_)
\* strs.join("")
Flatten(strs) ==
  IF strs = <<>> THEN <<>> ELSE Head(strs) \o Flatten(Tail(strs))

\* ------------------------------------------------------------ _send: render

CommentLine == <<"c", "o", "m", "m", "e", "n", "t", ":", " ", "\"", "d", "e", "v", "\"">>
IdPrefix == <<"i", "d", ":", " ">>
EventPrefix == <<"e", "v", "e", "n", "t", ":", " ">>
RetryPrefix == <<"r", "e", "t", "r", "y", ":", " ">>
DataPrefix == <<"d", "a", "t", "a", ":", " ">>

DefaultSendOptions ==
  Obj(<< <<"eventId", Null>>, <<"retryDuration", Num(1000)>> >>)

\* the default value of the parameter sendOptions applies to undefined only
SendOptionsParam(sendOptions) ==
  IF sendOptions = Undefined THEN DefaultSendOptions ELSE sendOptions

\* dataLines.map((line) => `data: ${line}\n`).join("") + "\n"
DataBlock(dataLines) ==
  Flatten([i \in 1..Len(dataLines) |-> DataPrefix \o dataLines[i] \o <<LF>>])
    \o <<LF>>

\* the id line under `if (sendOptions.eventId)`: event id 0 is dropped
IdLineIfTruthy(sendOptions) ==
  IF Truthy(Get(sendOptions, "eventId"))
  THEN IdPrefix \o JsString(Get(sendOptions, "eventId")) \o <<LF>>
  ELSE <<>>

IdLine(sendOptions) ==
  IF NotNullish(Get(sendOptions, "eventId"))
  THEN IdPrefix \o JsString(Get(sendOptions, "eventId")) \o <<LF>>
  ELSE <<>>

EventLine(eventType) ==
  IF Truthy(eventType) THEN EventPrefix \o JsString(eventType) \o <<LF>> ELSE <<>>

RetryLine(sendOptions) ==
  RetryPrefix \o JsString(Get(sendOptions, "retryDuration")) \o <<LF>>

\* the eventString of _send(eventType, dataLines, sendOptions)
EventString(eventType, dataLines, sendOptions) ==
  LET so == SendOptionsParam(sendOptions)
      data == DataBlock(dataLines)
  IN CommentLine \o <<LF>> \o IdLine(so) \o EventLine(eventType)
       \o RetryLine(so) \o data

\* ------------------------------------------------- _send: headers and write

HeaderSet ==
  << <<"Cache-Control", "no-cache">>,
     <<"Connnection", "keep-alive">>,
     <<"Content-Type", "text/event-stream">> >>

ResKinds == {"undefined", "headersOnly", "writable"}

\* Object.keys(this.headers).forEach((key) => this.res?.setHeader(key, ...)),
\* run when headers have not been sent and the runtime is not Bun
HeaderCalls(sent, bun, resKind, hdrs) ==
  IF ~sent /\ ~bun /\ resKind # "undefined"
  THEN [i \in 1..Len(hdrs) |-> <<"setHeader", hdrs[i][1], hdrs[i][2]>>]
  ELSE <<>>

\* if (this.res?.write) this.res.write(eventString)
WriteCalls(resKind) ==
  IF resKind = "writable" THEN << <<"write">> >> ELSE <<>>

\* the event written before the headers are set
WriteBeforeHeaders(sent, bun, resKind, hdrs) ==
  WriteCalls(resKind) \o HeaderCalls(sent, bun, resKind, hdrs)

\* what one _send calls on the response, in order
ResponseCalls(sent, bun, resKind, hdrs) ==
  HeaderCalls(sent, bun, resKind, hdrs) \o WriteCalls(resKind)

\* the flag left as it was: the assignment of line 125 forgotten
HeadersSentLeftAsIs(sent) == sent

\* this.headersSent after a _send
HeadersSentAfterSend(sent) == TRUE

\* _send with headersSent kept in one object that all contexts share
SendSharedFlag(c, op, args, eventType, dataLines, sendOptions) ==
  LET eventString == EventString(eventType, dataLines, sendOptions)
  IN /\ resLog' = [resLog EXCEPT ![c] =
                     @ \o ResponseCalls(headersSent[c], isBun, res[c], headers[c])]
     /\ headersSent' = [d \in Ctx |-> TRUE]
     /\ last' = [ctx |-> c, op |-> op, args |-> args, outcome |-> "return",
                 err |-> "", eventType |-> eventType, lines |-> dataLines,
                 sendOptions |-> sendOptions, ret |-> eventString,
                 wrote |-> WriteCalls(res[c]) # <<>>]
     /\ UNCHANGED <<isBun, res, headers, req, read, stream, backendStore, served>>

\* the effect of this._send(eventType, dataLines, sendOptions) on context c,
\* called by operation op with arguments args
Send(c, op, args, eventType, dataLines, sendOptions) ==
  LET eventString == EventString(eventType, dataLines, sendOptions)
  IN /\ resLog' = [resLog EXCEPT ![c] =
                     @ \o ResponseCalls(headersSent[c], isBun, res[c], headers[c])]
     /\ headersSent' = [headersSent EXCEPT ![c] = HeadersSentAfterSend(@)]
     /\ last' = [ctx |-> c, op |-> op, args |-> args, outcome |-> "return",
                 err |-> "", eventType |-> eventType, lines |-> dataLines,
                 sendOptions |-> sendOptions, ret |-> eventString,
                 wrote |-> WriteCalls(res[c]) # <<>>]
     /\ UNCHANGED <<isBun, res, headers, req, read, stream, backendStore, served>>

\* a call that throws after it has set the headers and the flag
ThrowAfterHeaders(c, op, args, message) ==
  /\ last' = [ctx |-> c, op |-> op, args |-> args, outcome |-> "throw",
              err |-> message, eventType |-> Undefined, lines |-> <<>>,
              sendOptions |-> Undefined, ret |-> <<>>, wrote |-> FALSE]
  /\ resLog' = [resLog EXCEPT ![c] =
                  @ \o HeaderCalls(headersSent[c], isBun, res[c], headers[c])]
  /\ headersSent' = [headersSent EXCEPT ![c] = TRUE]
  /\ UNCHANGED <<isBun, res, headers, req, read, stream, backendStore, served>>

\* a call that throws: nothing but the error reaches the caller
Throw(c, op, args, message) ==
  /\ last' = [ctx |-> c, op |-> op, args |-> args, outcome |-> "throw",
              err |-> message, eventType |-> Undefined, lines |-> <<>>,
              sendOptions |-> Undefined, ret |-> <<>>, wrote |-> FALSE]
  /\ UNCHANGED <<isBun, res, headers, headersSent, resLog, req, read, stream,
               backendStore, served>>

\* what a command builder comes to: an error thrown, or a call of _send
ThrowResult(message) == [kind |-> "throw", message |-> message]
SendResult(eventType, dataLines, sendOptions) ==
  [kind |-> "send", eventType |-> eventType, dataLines |-> dataLines,
   sendOptions |-> sendOptions]

Apply(c, op, args, result) ==
  IF result.kind = "throw"
  THEN Throw(c, op, args, result.message)
  ELSE Send(c, op, args, result.eventType, result.dataLines, result.sendOptions)

\* { eventId: options?.eventId, retryDuration: options?.retryDuration }
ForwardedSendOptions(options) ==
  Obj(<< <<"eventId", OptGet(options, "eventId")>>,
         <<"retryDuration", OptGet(options, "retryDuration")>> >>)

\* if (v != null) dataLines.push(`<prefix>${v}`)
OptionLine(prefix, v) == IF NotNullish(v) THEN <<prefix \o JsString(v)>> ELSE <<>>

SelectorPrefix == <<"s", "e", "l", "e", "c", "t", "o", "r", " ">>
SettleDurationPrefix ==
  <<"s", "e", "t", "t", "l", "e", "D", "u", "r", "a", "t", "i", "o", "n", " ">>
UseViewTransitionPrefix ==
  <<"u", "s", "e", "V", "i", "e", "w", "T", "r", "a", "n", "s", "i", "t", "i", "o", "n", " ">>
FragmentsPrefix == <<"f", "r", "a", "g", "m", "e", "n", "t", "s", " ">>

\* --------------------------------------------------------- MergeFragments

MergeFragmentsEvent ==
  Str(<<"d", "a", "t", "a", "s", "t", "a", "r", "-", "m", "e", "r", "g", "e", "-",
        "f", "r", "a", "g", "m", "e", "n", "t", "s">>)

DefaultMergeFragmentsOptions ==
  Obj(<< <<"selector", Null>>,
         <<"mergeMode", Str(<<"m", "o", "r", "p", "h">>)>>,
         <<"settleDuration", Num(300)>>,
         <<"useViewTransition", Null>>,
         <<"eventId", Null>>,
         <<"retryDuration", Null>> >>)

MergeFragmentsOptionsParam(options) ==
  IF options = Undefined THEN DefaultMergeFragmentsOptions ELSE options

MergeFragmentsOptionLines(options) ==
  OptionLine(SelectorPrefix, OptGet(options, "selector"))
    \o OptionLine(SettleDurationPrefix, OptGet(options, "settleDuration"))
    \o OptionLine(UseViewTransitionPrefix, OptGet(options, "useViewTransition"))

\* s.replace(/[\r\n]+/, ""): without the g flag only the first run goes
StripFirstLineBreakRun(s) ==
  LET breaks == {i \in 1..Len(s) : s[i] \in {CR, LF}}
  IN IF breaks = {} THEN s
     ELSE LET b == CHOOSE i \in breaks : \A j \in breaks : i <= j
              rest == {i \in b..Len(s) : s[i] \notin {CR, LF}}
              e == IF rest = {} THEN Len(s) + 1
                   ELSE CHOOSE i \in rest : \A j \in rest : i <= j
          IN SubSeq(s, 1, b - 1) \o SubSeq(s, e, Len(s))

\* s.replace(/[\r\n]+/g, "")
StripLineBreaks(s) == SelectSeq(s, LAMBDA ch : ch \notin {CR, LF})

\* `fragments ${frag.replace(/[\r\n]+/g, "")}`
FragmentLine(frag) == FragmentsPrefix \o StripLineBreaks(frag)

\* MergeFragments without the Array.isArray branch: a sequence is an invalid type
MergeFragmentsStringOnly(fragments, optionsArg) ==
  LET options == MergeFragmentsOptionsParam(optionsArg)
  IN IF Truthy(fragments)
     THEN IF TypeOf(fragments) = "string"
          THEN SendResult(MergeFragmentsEvent,
                          MergeFragmentsOptionLines(options)
                            \o <<FragmentLine(fragments[2])>>,
                          ForwardedSendOptions(options))
          ELSE ThrowResult("Invalid type for fragments. Expected string or array.")
     ELSE ThrowResult("MergeFragments missing fragment(s).")

MergeFragmentsResult(fragments, optionsArg) ==
  LET options == MergeFragmentsOptionsParam(optionsArg)
      optionLines == MergeFragmentsOptionLines(options)
  IN IF Truthy(fragments)
     THEN IF TypeOf(fragments) = "string"
          THEN SendResult(MergeFragmentsEvent,
                          optionLines \o <<FragmentLine(fragments[2])>>,
                          ForwardedSendOptions(options))
          ELSE IF TypeOf(fragments) = "array"
          THEN IF \E i \in 1..Len(fragments[2]) : TypeOf(fragments[2][i]) # "string"
               THEN ThrowResult("TypeError: frag.replace is not a function")
               ELSE SendResult(MergeFragmentsEvent,
                               optionLines \o [i \in 1..Len(fragments[2]) |->
                                                 FragmentLine(fragments[2][i][2])],
                               ForwardedSendOptions(options))
          ELSE ThrowResult("Invalid type for fragments. Expected string or array.")
     ELSE ThrowResult("MergeFragments missing fragment(s).")

\* -------------------------------------------------------- RemoveFragments

RemoveFragmentsEvent ==
  Str(<<"d", "a", "t", "a", "s", "t", "a", "r", "-", "r", "e", "m", "o", "v", "e", "-",
        "f", "r", "a", "g", "m", "e", "n", "t", "s">>)

RemoveFragmentsLines(selector, options) ==
  <<SelectorPrefix \o JsString(selector)>>
    \o OptionLine(SettleDurationPrefix, OptGet(options, "settleDuration"))
    \o OptionLine(UseViewTransitionPrefix, OptGet(options, "useViewTransition"))

RemoveFragmentsResult(selector, options) ==
  IF Truthy(selector)
  THEN SendResult(RemoveFragmentsEvent, RemoveFragmentsLines(selector, options),
                  ForwardedSendOptions(options))
  ELSE ThrowResult("RemoveFragments missing selector.")

\* ----------------------------------------------------------- MergeSignals

MergeSignalsEvent ==
  Str(<<"d", "a", "t", "a", "s", "t", "a", "r", "-", "m", "e", "r", "g", "e", "-",
        "s", "i", "g", "n", "a", "l", "s">>)

OnlyIfMissingLine ==
  <<"o", "n", "l", "y", "I", "f", "M", "i", "s", "s", "i", "n", "g", " ", "t", "r", "u", "e">>
SignalsPrefix == <<"s", "i", "g", "n", "a", "l", "s", " ">>

\* one character of a string inside JSON.stringify's quotes
JsonChar(ch) ==
  CASE ch = "\"" -> <<"\\", "\"">>
    [] ch = "\\" -> <<"\\", "\\">>
    [] ch = LF -> <<"\\", "n">>
    [] ch = CR -> <<"\\", "r">>
    [] OTHER -> <<ch>>

JsonQuote(s) == <<"\"">> \o Flatten([i \in 1..Len(s) |-> JsonChar(s[i])]) \o <<"\"">>

RECURSIVE JoinWith(_, _)
\* strs.join(sep)
JoinWith(strs, sep) ==
  IF strs = <<>> THEN <<>>
  ELSE IF Len(strs) = 1 THEN strs[1]
  ELSE strs[1] \o sep \o JoinWith(Tail(strs), sep)

RECURSIVE JsonStringify(_)
\* JSON.stringify(v) of a value that is not undefined; the keys of the model's
\* signal maps are single characters
JsonStringify(v) ==
  CASE TypeOf(v) = "null" -> <<"n", "u", "l", "l">>
    [] TypeOf(v) = "number" -> JsString(v)
    [] TypeOf(v) = "boolean" -> JsString(v)
    [] TypeOf(v) = "string" -> JsonQuote(v[2])
    [] TypeOf(v) = "array" ->
         <<"[">> \o JoinWith([i \in 1..Len(v[2]) |->
                               IF TypeOf(v[2][i]) = "undefined"
                               THEN <<"n", "u", "l", "l">>
                               ELSE JsonStringify(v[2][i])], <<",">>) \o <<"]">>
    [] TypeOf(v) = "object" ->
         LET kept == SelectSeq(v[2], LAMBDA kv : TypeOf(kv[2]) # "undefined")
         IN <<"{">> \o JoinWith([i \in 1..Len(kept) |->
                                   JsonQuote(<<kept[i][1]>>) \o <<":">>
                                     \o JsonStringify(kept[i][2])], <<",">>) \o <<"}">>

\* the option line under `if (options?.onlyIfMissing)`: any truthy value counts
MergeSignalsOptionLinesIfTruthy(options) ==
  IF Truthy(OptGet(options, "onlyIfMissing")) THEN <<OnlyIfMissingLine>> ELSE <<>>

MergeSignalsOptionLines(options) ==
  IF OptGet(options, "onlyIfMissing") = Bool(TRUE) THEN <<OnlyIfMissingLine>> ELSE <<>>

MergeSignalsResult(signals, options) ==
  IF Truthy(signals)
  THEN SendResult(MergeSignalsEvent,
                  MergeSignalsOptionLines(options)
                    \o <<SignalsPrefix \o JsonStringify(signals)>>,
                  ForwardedSendOptions(options))
  ELSE ThrowResult("MergeSignals missing signals.")

\* ---------------------------------------------------------- RemoveSignals

RemoveSignalsEvent ==
  Str(<<"d", "a", "t", "a", "s", "t", "a", "r", "-", "r", "e", "m", "o", "v", "e", "-",
        "s", "i", "g", "n", "a", "l", "s">>)

PathsPrefix == <<"p", "a", "t", "h", "s", " ">>

\* RemoveSignals pushing one line `paths ${paths}` for the whole sequence
RemoveSignalsOneLine(paths, options) ==
  IF Truthy(paths)
  THEN IF TypeOf(paths) = "array"
       THEN SendResult(RemoveSignalsEvent,
                       <<PathsPrefix
                           \o JoinWith([i \in 1..Len(paths[2]) |-> JsString(paths[2][i])],
                                       <<",">>)>>,
                       ForwardedSendOptions(options))
       ELSE ThrowResult("TypeError: paths.map is not a function")
  ELSE ThrowResult("RemoveSignals missing paths")

RemoveSignalsResult(paths, options) ==
  IF Truthy(paths)
  THEN IF TypeOf(paths) = "array"
       THEN SendResult(RemoveSignalsEvent,
                       [i \in 1..Len(paths[2]) |-> PathsPrefix \o JsString(paths[2][i])],
                       ForwardedSendOptions(options))
       ELSE ThrowResult("TypeError: paths.map is not a function")
  ELSE ThrowResult("RemoveSignals missing paths")

\* ---------------------------------------------------------- ExecuteScript

ExecuteScriptEvent ==
  Str(<<"d", "a", "t", "a", "s", "t", "a", "r", "-", "e", "x", "e", "c", "u", "t", "e", "-",
        "s", "c", "r", "i", "p", "t">>)

AutoRemovePrefix == <<"a", "u", "t", "o", "R", "e", "m", "o", "v", "e", " ">>
ScriptPrefix == <<"s", "c", "r", "i", "p", "t", " ">>

RECURSIVE SplitLines(_)
\* s.split("\n")
SplitLines(s) ==
  LET breaks == {i \in 1..Len(s) : s[i] = LF}
  IN IF breaks = {} THEN <<s>>
     ELSE LET b == CHOOSE i \in breaks : \A j \in breaks : i <= j
          IN <<SubSeq(s, 1, b - 1)>> \o SplitLines(SubSeq(s, b + 1, Len(s)))

\* the white space and line terminators that trim() removes
IsWhiteSpace(ch) == ch \in {" ", "\t", "\f", LF, CR}

\* s.trim()
Trim(s) ==
  LET solid == {i \in 1..Len(s) : ~IsWhiteSpace(s[i])}
  IN IF solid = {} THEN <<>>
     ELSE SubSeq(s, CHOOSE i \in solid : \A j \in solid : i <= j,
                    CHOOSE i \in solid : \A j \in solid : j <= i)

\* line[i], undefined (no character) past the end of the line
CharAt(line, i) == IF i \in 1..Len(line) THEN line[i] ELSE ""

IsQuote(ch) == ch \in {"\"", "'"}

RECURSIVE ScanFromEveryBackslashEscapes(_, _, _, _, _, _)
\* a scanner in which every backslash of a string escapes the next character,
\* an escaped backslash included
ScanFromEveryBackslashEscapes(line, i, insideBlockComment, isInString, isEscape, result) ==
  IF i > Len(line)
  THEN [result |-> result, insideBlockComment |-> insideBlockComment]
  ELSE
    LET char == line[i]
        next == CharAt(line, i + 1)
    IN IF insideBlockComment
       THEN IF char = "*" /\ next = "/"
            THEN ScanFromEveryBackslashEscapes(line, i + 2, FALSE, isInString, isEscape, result)
            ELSE ScanFromEveryBackslashEscapes(line, i + 1, TRUE, isInString, isEscape, result)
       ELSE IF isInString
       THEN IF char = "\\"
            THEN ScanFromEveryBackslashEscapes(line, i + 1, FALSE, TRUE, TRUE, Append(result, char))
            ELSE IF IsQuote(char) /\ ~isEscape
            THEN ScanFromEveryBackslashEscapes(line, i + 1, FALSE, FALSE, isEscape, Append(result, char))
            ELSE ScanFromEveryBackslashEscapes(line, i + 1, FALSE, TRUE, FALSE, Append(result, char))
       ELSE IF IsQuote(char)
            THEN ScanFromEveryBackslashEscapes(line, i + 1, FALSE, TRUE, isEscape, Append(result, char))
            ELSE IF char = "/" /\ next = "/"
            THEN [result |-> result, insideBlockComment |-> insideBlockComment]
            ELSE IF char = "/" /\ next = "*"
            THEN ScanFromEveryBackslashEscapes(line, i + 2, TRUE, isInString, isEscape, result)
            ELSE ScanFromEveryBackslashEscapes(line, i + 1, FALSE, FALSE, isEscape, Append(result, char))

RECURSIVE ScanFromIgnoringStrings(_, _, _, _, _, _)
\* a scanner that never tracks string literals: every // starts a comment
ScanFromIgnoringStrings(line, i, insideBlockComment, isInString, isEscape, result) ==
  IF i > Len(line)
  THEN [result |-> result, insideBlockComment |-> insideBlockComment]
  ELSE
    LET char == line[i]
        next == CharAt(line, i + 1)
    IN IF insideBlockComment
       THEN IF char = "*" /\ next = "/"
            THEN ScanFromIgnoringStrings(line, i + 2, FALSE, FALSE, FALSE, result)
            ELSE ScanFromIgnoringStrings(line, i + 1, TRUE, FALSE, FALSE, result)
       ELSE IF char = "/" /\ next = "/"
       THEN [result |-> result, insideBlockComment |-> insideBlockComment]
       ELSE IF char = "/" /\ next = "*"
       THEN ScanFromIgnoringStrings(line, i + 2, TRUE, FALSE, FALSE, result)
       ELSE ScanFromIgnoringStrings(line, i + 1, FALSE, FALSE, FALSE, Append(result, char))

RECURSIVE ScanFrom(_, _, _, _, _, _)
\* the for loop over one trimmed line, from index i on, with the loop's state
ScanFrom(line, i, insideBlockComment, isInString, isEscape, result) ==
  IF i > Len(line)
  THEN [result |-> result, insideBlockComment |-> insideBlockComment]
  ELSE
    LET char == line[i]
        next == CharAt(line, i + 1)
    IN IF insideBlockComment
       THEN IF char = "*" /\ next = "/"
            THEN ScanFrom(line, i + 2, FALSE, isInString, isEscape, result)
            ELSE ScanFrom(line, i + 1, TRUE, isInString, isEscape, result)
       ELSE IF isInString
       THEN IF char = "\\" /\ ~isEscape
            THEN ScanFrom(line, i + 1, FALSE, TRUE, TRUE, Append(result, char))
            ELSE IF IsQuote(char) /\ ~isEscape
            THEN ScanFrom(line, i + 1, FALSE, FALSE, isEscape, Append(result, char))
            ELSE ScanFrom(line, i + 1, FALSE, TRUE, FALSE, Append(result, char))
       ELSE IF IsQuote(char)
            THEN ScanFrom(line, i + 1, FALSE, TRUE, isEscape, Append(result, char))
            ELSE IF char = "/" /\ next = "/"
            THEN [result |-> result, insideBlockComment |-> insideBlockComment]
            ELSE IF char = "/" /\ next = "*"
            THEN ScanFrom(line, i + 2, TRUE, isInString, isEscape, result)
            ELSE ScanFrom(line, i + 1, FALSE, FALSE, isEscape, Append(result, char))

\* the callback of lines.map: one line's codePart and the block-comment flag after it
ScanLine(line, insideBlockComment) ==
  LET scanned == ScanFrom(Trim(line), 1, insideBlockComment, FALSE, FALSE, <<>>)
  IN [codePart |-> Trim(scanned.result),
      insideBlockComment |-> scanned.insideBlockComment]

RECURSIVE ProcessLinesForgetComment(_, _)
\* lines.map(...) with insideBlockComment declared inside the callback: every
\* line starts outside a comment
ProcessLinesForgetComment(lines, insideBlockComment) ==
  IF lines = <<>> THEN <<>>
  ELSE <<ScanLine(Head(lines), FALSE).codePart>>
         \o ProcessLinesForgetComment(Tail(lines), FALSE)

RECURSIVE ProcessLines(_, _)
\* lines.map(...) with insideBlockComment carried from line to line
ProcessLines(lines, insideBlockComment) ==
  IF lines = <<>> THEN <<>>
  ELSE LET first == ScanLine(Head(lines), insideBlockComment)
       IN <<first.codePart>> \o ProcessLines(Tail(lines), first.insideBlockComment)

\* processedLines.join(" ") of the non-empty processed lines
SingleLineScript(script) ==
  JoinWith(SelectSeq(ProcessLines(SplitLines(script), FALSE),
                     LAMBDA line : Len(line) > 0),
           <<" ">>)

ExecuteScriptLines(script, options) ==
  OptionLine(AutoRemovePrefix, OptGet(options, "autoRemove"))
    \o (IF Truthy(script)
        THEN <<ScriptPrefix \o SingleLineScript(script[2])>>
        ELSE <<>>)

ExecuteScriptResult(script, options) ==
  IF Truthy(script) /\ TypeOf(script) # "string"
  THEN ThrowResult("TypeError: script.split is not a function")
  ELSE SendResult(ExecuteScriptEvent, ExecuteScriptLines(script, options),
                  ForwardedSendOptions(options))

\* ------------------------------------------------------------- ReadSignals

RECURSIVE KeyOf(_)
\* the property key spelled by a sequence of characters
KeyOf(chars) == IF chars = <<>> THEN "" ELSE Head(chars) \o KeyOf(Tail(chars))

\* obj[key] = value: an own key keeps its place, a new key goes last
SetKey(pairs, key, value) ==
  IF \E i \in 1..Len(pairs) : pairs[i][1] = key
  THEN [i \in 1..Len(pairs) |-> IF pairs[i][1] = key THEN <<key, value>> ELSE pairs[i]]
  ELSE Append(pairs, <<key, value>>)

RECURSIVE AssignAll(_, _)
\* the own enumerable properties of `entries` copied onto `pairs`, in order
AssignAll(pairs, entries) ==
  IF entries = <<>> THEN pairs
  ELSE AssignAll(SetKey(pairs, Head(entries)[1], Head(entries)[2]), Tail(entries))

\* the own enumerable properties that `...v` copies: none for undefined, null,
\* numbers and booleans, the indexed characters of a string, the indexed
\* elements of an array
OwnEntries(v) ==
  CASE TypeOf(v) = "object" -> v[2]
    [] TypeOf(v) = "string" ->
         [i \in 1..Len(v[2]) |-> <<KeyOf(DecimalDigits(i - 1)), Str(<<v[2][i]>>)>>]
    [] TypeOf(v) = "array" ->
         [i \in 1..Len(v[2]) |-> <<KeyOf(DecimalDigits(i - 1)), v[2][i]>>]
    [] OTHER -> <<>>

\* { ...b, ...a }: the baseline spread over what was read
SpreadMergeBaselineLast(a, b) ==
  Obj(AssignAll(AssignAll(<<>>, OwnEntries(b)), OwnEntries(a)))

\* { signals, ...b }: the baseline kept under a key of its own, not spread
SpreadMergeNested(a, b) ==
  Obj(AssignAll(<< <<"signals", a>> >>, OwnEntries(b)))

\* { ...a, ...b }
SpreadMerge(a, b) == Obj(AssignAll(AssignAll(<<>>, OwnEntries(a)), OwnEntries(b)))

\* JSON.parse: the outcome of parsing from one position of the text
ParseFail == [ok |-> FALSE, value |-> Undefined, next |-> 0]
ParseDone(value, next) == [ok |-> TRUE, value |-> value, next |-> next]

IsJsonSpace(ch) == ch \in {" ", "\t", LF, CR}
DigitValue(ch) == CHOOSE d \in 0..9 : DigitChar(d) = ch

RECURSIVE SkipSpace(_, _)
SkipSpace(s, i) ==
  IF i <= Len(s) /\ IsJsonSpace(s[i]) THEN SkipSpace(s, i + 1) ELSE i

\* s has the characters of word at position i
HasWordAt(s, i, word) ==
  i + Len(word) - 1 <= Len(s) /\ SubSeq(s, i, i + Len(word) - 1) = word

RECURSIVE ParseDigits(_, _, _)
ParseDigits(s, i, acc) ==
  IF i <= Len(s) /\ (\E d \in 0..9 : DigitChar(d) = s[i])
  THEN ParseDigits(s, i + 1, acc * 10 + DigitValue(s[i]))
  ELSE ParseDone(Num(acc), i)

\* a JSON integer: an optional minus, then 0 or digits that do not start with 0
\* (the texts of the model hold no fraction and no exponent)
ParseNumber(s, i) ==
  LET negative == s[i] = "-"
      first == IF negative THEN i + 1 ELSE i
  IN IF first > Len(s) \/ (\A d \in 0..9 : DigitChar(d) # s[first]) THEN ParseFail
     ELSE LET digits == IF s[first] = "0" THEN ParseDone(Num(0), first + 1)
                        ELSE ParseDigits(s, first, 0)
          IN IF negative THEN ParseDone(Num(0 - digits.value[2]), digits.next)
             ELSE digits

\* a JSON string from its opening quote at i (the texts of the model hold no
\* escape sequence); a raw line break inside a string is a syntax error
ParseString(s, i) ==
  LET closing == {j \in (i + 1)..Len(s) : s[j] = "\""}
  IN IF closing = {} THEN ParseFail
     ELSE LET j == CHOOSE c \in closing : \A d \in closing : c <= d
          IN IF \E t \in (i + 1)..(j - 1) : s[t] \in {"\\", LF, CR, "\t"}
             THEN ParseFail
             ELSE ParseDone(Str(SubSeq(s, i + 1, j - 1)), j + 1)

RECURSIVE ParseValue(_, _)
RECURSIVE ParseMembers(_, _, _)
RECURSIVE ParseElements(_, _, _)

\* the members of an object from position i, after `{` or after a comma
ParseMembers(s, i, pairs) ==
  LET k == SkipSpace(s, i)
  IN IF k > Len(s) \/ s[k] # "\"" THEN ParseFail
     ELSE LET key == ParseString(s, k)
          IN IF ~key.ok THEN ParseFail
             ELSE LET colon == SkipSpace(s, key.next)
                  IN IF colon > Len(s) \/ s[colon] # ":" THEN ParseFail
                     ELSE LET member == ParseValue(s, colon + 1)
                          IN IF ~member.ok THEN ParseFail
                             ELSE LET after == SkipSpace(s, member.next)
                                      so_far == SetKey(pairs, KeyOf(key.value[2]), member.value)
                                  IN IF after > Len(s) THEN ParseFail
                                     ELSE IF s[after] = "}" THEN ParseDone(Obj(so_far), after + 1)
                                     ELSE IF s[after] = "," THEN ParseMembers(s, after + 1, so_far)
                                     ELSE ParseFail

\* the elements of an array from position i, after `[` or after a comma
ParseElements(s, i, elems) ==
  LET element == ParseValue(s, i)
  IN IF ~element.ok THEN ParseFail
     ELSE LET after == SkipSpace(s, element.next)
              so_far == Append(elems, element.value)
          IN IF after > Len(s) THEN ParseFail
             ELSE IF s[after] = "]" THEN ParseDone(Arr(so_far), after + 1)
             ELSE IF s[after] = "," THEN ParseElements(s, after + 1, so_far)
             ELSE ParseFail

ParseValue(s, i) ==
  LET k == SkipSpace(s, i)
  IN IF k > Len(s) THEN ParseFail
     ELSE IF s[k] = "{"
     THEN LET m == SkipSpace(s, k + 1)
          IN IF m <= Len(s) /\ s[m] = "}" THEN ParseDone(Obj(<<>>), m + 1)
             ELSE ParseMembers(s, m, <<>>)
     ELSE IF s[k] = "["
     THEN LET m == SkipSpace(s, k + 1)
          IN IF m <= Len(s) /\ s[m] = "]" THEN ParseDone(Arr(<<>>), m + 1)
             ELSE ParseElements(s, m, <<>>)
     ELSE IF s[k] = "\"" THEN ParseString(s, k)
     ELSE IF s[k] = "-" \/ (\E d \in 0..9 : DigitChar(d) = s[k]) THEN ParseNumber(s, k)
     ELSE IF HasWordAt(s, k, <<"t", "r", "u", "e">>) THEN ParseDone(Bool(TRUE), k + 4)
     ELSE IF HasWordAt(s, k, <<"f", "a", "l", "s", "e">>) THEN ParseDone(Bool(FALSE), k + 5)
     ELSE IF HasWordAt(s, k, <<"n", "u", "l", "l">>) THEN ParseDone(Null, k + 4)
     ELSE ParseFail

\* JSON.parse(text): ok and the value, or not ok (a SyntaxError is thrown)
JsonParse(text) ==
  LET parsed == ParseValue(text, 1)
  IN IF parsed.ok /\ SkipSpace(text, parsed.next) > Len(text)
     THEN [ok |-> TRUE, value |-> parsed.value]
     ELSE [ok |-> FALSE, value |-> Undefined]

RECURSIVE SplitOn(_, _)
\* s.split(sep) for a one-character separator
SplitOn(s, sep) ==
  LET at == {i \in 1..Len(s) : s[i] = sep}
  IN IF at = {} THEN <<s>>
     ELSE LET b == CHOOSE i \in at : \A j \in at : i <= j
          IN <<SubSeq(s, 1, b - 1)>> \o SplitOn(SubSeq(s, b + 1, Len(s)), sep)

\* url.parse(req.url).query: the text after the first `?`, null without one
UrlQuery(reqUrl) ==
  LET marks == {i \in 1..Len(reqUrl) : reqUrl[i] = "?"}
  IN IF marks = {} THEN Null
     ELSE Str(SubSeq(reqUrl, (CHOOSE i \in marks : \A j \in marks : i <= j) + 1,
                     Len(reqUrl)))

\* the percent escapes of the characters of a JSON text
PercentEscapes ==
  << <<"7", "B", "{">>, <<"7", "D", "}">>, <<"2", "2", "\"">>, <<"3", "A", ":">>,
     <<"2", "C", ",">>, <<"2", "0", " ">>, <<"5", "B", "[">>, <<"5", "D", "]">> >>

RECURSIVE QsUnescape(_)
\* querystring's decoding of a key or a value: `+` is a space, %XX the
\* character it escapes, a `%` that starts no escape stays
QsUnescape(s) ==
  IF s = <<>> THEN <<>>
  ELSE IF Head(s) = "+" THEN <<" ">> \o QsUnescape(Tail(s))
  ELSE LET hits == {n \in 1..Len(PercentEscapes) :
                      /\ Head(s) = "%"
                      /\ Len(s) >= 3
                      /\ s[2] = PercentEscapes[n][1]
                      /\ s[3] = PercentEscapes[n][2]}
       IN IF hits = {} THEN <<Head(s)>> \o QsUnescape(Tail(s))
          ELSE <<PercentEscapes[CHOOSE n \in hits : TRUE][3]>>
                 \o QsUnescape(SubSeq(s, 4, Len(s)))

DatastarKey == <<"d", "a", "t", "a", "s", "t", "a", "r">>

\* the key of one `key=value` piece of a query string
PieceKey(piece) == QsUnescape(Head(SplitOn(piece, "=")))

\* the value of one piece: what follows its first `=`
PieceValue(piece) ==
  LET key == Head(SplitOn(piece, "="))
  IN QsUnescape(SubSeq(piece, Len(key) + 2, Len(piece)))

\* querystring.parse(query).datastar: undefined, the value, or the array of
\* the values when the key is repeated
DatastarParam(query) ==
  IF TypeOf(query) # "string" THEN Undefined
  ELSE LET pieces == SelectSeq(SplitOn(query[2], "&"),
                               LAMBDA piece : piece # <<>> /\ PieceKey(piece) = DatastarKey)
       IN IF pieces = <<>> THEN Undefined
          ELSE IF Len(pieces) = 1 THEN Str(PieceValue(pieces[1]))
          ELSE Arr([i \in 1..Len(pieces) |-> Str(PieceValue(pieces[i]))])

\* String(v) of what JSON.parse is given: an array is its elements joined by commas
ParsedText(v) ==
  IF TypeOf(v) = "array"
  THEN JoinWith([i \in 1..Len(v[2]) |-> JsString(v[2][i])], <<",">>)
  ELSE JsString(v)

\* the settlement of the promise that ReadSignals returns
Resolved(value, source) == [status |-> "resolved", value |-> value, source |-> source]
Rejected(error, source) == [status |-> "rejected", value |-> error, source |-> source]
Waiting(status, source) == [status |-> status, value |-> Undefined, source |-> source]

\* the GET branch: JSON.parse of the datastar query parameter, spread over signals
ReadQuery(reqUrl, signals) ==
  LET query == JsonParse(ParsedText(DatastarParam(UrlQuery(reqUrl))))
  IN IF query.ok THEN Resolved(SpreadMerge(signals, query.value), "query")
     ELSE Rejected(Str(<<"S", "y", "n", "t", "a", "x", "E", "r", "r", "o", "r">>), "query")

\* if (this.req?.json): the request has a json method and only then it is called
CallsJsonWithoutBody(request) == request.json[1] # "absent" /\ ~Truthy(request.body)
CallsJson(request) == request.json[1] # "absent"

\* if (!body): the stream is drained, else the body is spread over signals
ReadBody(request, body, signals, source) ==
  IF Truthy(body) THEN Resolved(SpreadMerge(signals, body), source)
  ELSE IF request.readable THEN Waiting("draining", "stream")
  ELSE Rejected(Str(<<"T", "y", "p", "e", "E", "r", "r", "o", "r">>), "stream")

\* chunks += chunk
AccumulateLatest(chunks, chunk) == chunk
Accumulate(chunks, chunk) == chunks \o chunk

\* ----------------------------------------------------------------- inputs

EventIds == {Undefined, Null, Num(0), Num(7)}
RetryDurations == {Undefined, Null, Num(0), Num(2500)}

\* the sendOptions a caller passes to _send: none, or an object
SendOptionsInputs ==
  {Undefined, Obj(<<>>), Obj(<< <<"eventId", Num(7)>> >>)}
    \cup {Obj(<< <<"eventId", e>>, <<"retryDuration", r>> >>) :
            e \in EventIds, r \in RetryDurations}

EventTypeInputs == {Str(<<>>), Undefined, Str(<<"p", "i", "n", "g">>)}

DataLinesInputs ==
  {<<>>, << <<"a">> >>, << <<"a", " ", "b">>, <<>>, <<"c">> >>}

\* the event id and retry duration a caller puts in a builder's options
BuilderEventIds == {Undefined, Num(0)}
BuilderRetryDurations == {Undefined, Num(2500)}

FragmentsInputs ==
  {Undefined, Null, Str(<<>>), Num(5),
   Str(<<"<", "p", ">">>),
   Str(<<"<", "p", ">", CR, LF, "x", LF, "<", "/", "p", ">", LF>>),
   Arr(<<>>),
   Arr(<<Str(<<"<", "p", ">">>)>>),
   Arr(<<Str(<<"a", LF, "b">>), Str(<<>>), Str(<<"c", CR>>)>>),
   Arr(<<Str(<<"<", "p", ">">>), Num(5)>>)}

MergeFragmentsOptionsInputs ==
  {Undefined, Null, Obj(<<>>)}
    \cup {Obj(<< <<"selector", sel>>, <<"mergeMode", mode>>,
                 <<"settleDuration", settle>>, <<"useViewTransition", uvt>>,
                 <<"eventId", e>>, <<"retryDuration", r>> >>) :
            sel \in {Undefined, Str(<<"#", "a">>)},
            mode \in {Undefined, Str(<<"a", "p", "p", "e", "n", "d">>)},
            settle \in {Undefined, Num(0), Num(500)},
            uvt \in {Undefined, Bool(TRUE), Bool(FALSE)},
            e \in BuilderEventIds, r \in BuilderRetryDurations}

SelectorInputs == {Undefined, Null, Str(<<>>), Str(<<"#", "a">>)}

RemoveFragmentsOptionsInputs ==
  {Undefined, Null, Obj(<<>>)}
    \cup {Obj(<< <<"settleDuration", settle>>, <<"useViewTransition", uvt>>,
                 <<"eventId", e>>, <<"retryDuration", r>> >>) :
            settle \in {Undefined, Num(0), Num(500)},
            uvt \in {Undefined, Bool(TRUE), Bool(FALSE)},
            e \in BuilderEventIds, r \in BuilderRetryDurations}

SignalsInputs ==
  {Undefined, Null, Obj(<<>>),
   Obj(<< <<"x", Num(1)>> >>),
   Obj(<< <<"y", Str(<<"a", "\"", "b">>)>>, <<"x", Bool(TRUE)>>, <<"z", Null>> >>)}

MergeSignalsOptionsInputs ==
  {Undefined, Null, Obj(<<>>)}
    \cup {Obj(<< <<"onlyIfMissing", oim>>, <<"eventId", e>>, <<"retryDuration", r>> >>) :
            oim \in {Undefined, Null, Bool(TRUE), Bool(FALSE), Num(1), Str(<<"t", "r", "u", "e">>)},
            e \in BuilderEventIds, r \in BuilderRetryDurations}

PathsInputs ==
  {Undefined, Null, Arr(<<>>), Arr(<<Str(<<"a">>)>>), Arr(<<Str(<<"a">>), Str(<<"b">>)>>), Str(<<"a", "b">>)}

RemoveSignalsOptionsInputs ==
  {Undefined, Null, Obj(<<>>)}
    \cup {Obj(<< <<"eventId", e>>, <<"retryDuration", r>> >>) :
            e \in BuilderEventIds, r \in BuilderRetryDurations}

ScriptInputs ==
  {Undefined, Null, Str(<<>>),
   Str(<<"a", "(", ")">>),
   Str(<<"c", "o", "n", "s", "o", "l", "e", ".", "l", "o", "g", "(", "\"", "/", "/", "n", "o", "t", " ", "a", " ", "c", "o", "m", "m", "e", "n", "t", "\"", ")", ";", " ", "/", "/", " ", "r", "e", "a", "l", " ", "c", "o", "m", "m", "e", "n", "t">>),
   Str(<<"/", "/", " ", "a", LF, "/", "*", " ", "b", " ", "*", "/">>),
   Str(<<"f", "(", "1", ")", ";", " ", "/", "*", " ", "x", LF, " ", "y", " ", "*", "/", " ", "g", "(", "'", "/", "*", "'", ")", ";", LF, " ", " ", "h", "(", ")">>)}

\* script lines that hold a string literal with // inside it, then a // comment
LiteralLineInputs ==
  {pre \o <<q>> \o content \o <<q>> \o mid \o <<"/", "/">> \o comment :
     pre \in {<<>>, <<" ", "f", "(">>},
     q \in {"\"", "'"},
     content \in {<<"/", "/", "x">>, <<"a", " ", "/", "/">>, <<"/", "*", "/", "/", "*", "/">>},
     mid \in {<<>>, <<")", ";", " ">>},
     comment \in {<<>>, <<" ", "c">>, <<"\"", "d", "/", "*">>}}

\* scripts that hold nothing but comments and white space
CommentOnlyScripts ==
  {Str(<<"/", "/", " ", "a", LF, "/", "*", " ", "b", " ", "*", "/">>),
   Str(<<"/", "/">>),
   Str(<<" ", "/", "*", "a", "*", "/", " ">>),
   Str(<<"/", "*", LF, "x", LF, "*", "/">>),
   Str(<<" ", LF, "/", "/", "a">>)}

\* what a string literal holds around a quote of the other kind
MixedQuoteContents(other) ==
  {<<"i", "t", other, "s", " ", "/", "/", " ", "h", "e", "r", "e">>,
   <<other, "/", "*", "a", "*", "/">>,
   <<"a", other, "b">>}

\* one line of code around a string literal that holds the other kind of quote
MixedQuoteScripts ==
  UNION {{Str(pre \o <<q>> \o content \o <<q>> \o <<";">>) :
            pre \in {<<>>, <<"x", " ", "=", " ">>},
            content \in MixedQuoteContents(IF q = "'" THEN "\"" ELSE "'")} : q \in {"\"", "'"}}

\* lines with backslashes in a string literal: an escaped quote, an escaped
\* backslash before the closing quote, and both
EscapeLineInputs ==
  UNION {{<<q, "a", "\\", q, "/", "/", "b", q, " ", "/", "/", "c">>,
          <<q, "a", "\\", "\\", q, "/", "/", "b", q>>,
          <<"f", "(", q, "\\", "\\", "\\", q, "/", "/", q, ")", ";">>,
          <<q, "\\", "n", "\\", "\\", q, " ", "+", " ", "x", " ", "/", "/", q>>} :
           q \in {"\"", "'"}}

\* scripts of one or two lines with backslashes in their string literals
EscapeScripts ==
  {Str(line) : line \in EscapeLineInputs}
    \cup {Str(first \o <<LF>> \o second) :
            first \in EscapeLineInputs, second \in EscapeLineInputs}

\* scripts with a block comment: what precedes it, what it holds, whether it
\* is closed, and what follows
BlockCommentScripts ==
  {Str(before \o <<"/", "*">> \o inside \o closing \o after) :
     before \in {<<>>, <<"a", " ">>},
     inside \in {<<"x">>, <<"/", " ", "b", " ">>, <<"*", " ">>, <<"*", "*">>,
                 <<" ", "x", LF, " ", "y", " ">>, <<LF, LF>>,
                 <<"*", LF, "/", " ", "z", " ">>},
     closing \in {<<"*", "/">>, <<>>},
     after \in {<<>>, <<" ", "c">>, <<"c", " ", "/", "*", " ", "d", " ", "*", "/", " ", "e">>,
                <<LF, "f">>}}

\* scripts whose first line ends inside a string literal
OpenStringScripts ==
  {Str(<<"a", "(", q, "b", LF, "c", " ", "/", "/", " ", "d">>) : q \in {"\"", "'"}}
    \cup {Str(<<"x", " ", "=", " ", q, LF, " ", "y", "/", "/", q>>) : q \in {"\"", "'"}}

\* scripts whose lines end in a carriage return, a line feed, or both
LineEndingScripts ==
  {Str(<<"a", "(", ")", ";">> \o ending \o <<"b", "(", ")">>) :
     ending \in {<<CR>>, <<CR, LF>>, <<LF>>, <<" ", CR, CR, LF, " ">>, <<CR, " ", CR>>}}

\* the scripts a caller hands to the sanitizer: one or two lines of code
SanitizerScripts ==
  {Str(line) : line \in LiteralLineInputs}
    \cup {Str(first \o <<LF>> \o second) :
            first \in LiteralLineInputs,
            second \in {<<"f", "(", "'", "/", "/", "'", ")", " ", "/", "/">>,
                        <<" ", "\"", "/", "/", "\"", ";", "/", "/", "g">>}}
    \cup CommentOnlyScripts
    \cup MixedQuoteScripts
    \cup EscapeScripts
    \cup BlockCommentScripts
    \cup OpenStringScripts
    \cup LineEndingScripts

ExecuteScriptOptionsInputs ==
  {Undefined, Null, Obj(<<>>)}
    \cup {Obj(<< <<"autoRemove", ar>>, <<"eventId", e>>, <<"retryDuration", r>> >>) :
            ar \in {Undefined, Null, Bool(TRUE), Bool(FALSE)},
            e \in BuilderEventIds, r \in BuilderRetryDurations}

\* the baseline the caller hands to ReadSignals
BaselineInputs ==
  {Undefined, Obj(<<>>),
   Obj(<< <<"x", Num(0)>>, <<"y", Num(2)>> >>),
   Obj(<< <<"z", Str(<<"a">>)>> >>)}

UrlPath == <<"/", "r", "e", "a", "d", "S", "i", "g", "n", "a", "l", "s">>

\* the query strings of a GET request: the datastar parameter escaped as a
\* browser sends it, raw, absent, repeated, not JSON, or not an object
QueryInputs ==
  {<<"d", "a", "t", "a", "s", "t", "a", "r", "=", "%", "7", "B", "%", "2", "2", "x", "%", "2", "2", "%", "3", "A", "1", "%", "7", "D">>,
   <<"d", "a", "t", "a", "s", "t", "a", "r", "=", "{", "\"", "x", "\"", ":", "1", "}">>,
   <<"a", "=", "1", "&", "d", "a", "t", "a", "s", "t", "a", "r", "=", "%", "7", "B", "%", "2", "2", "y", "%", "2", "2", "%", "3", "A", "+", "%", "2", "2", "b", "%", "2", "2", "%", "2", "C", "%", "2", "2", "w", "%", "2", "2", "%", "3", "A", "%", "5", "B", "t", "r", "u", "e", "%", "5", "D", "%", "7", "D">>,
   <<"d", "a", "t", "a", "s", "t", "a", "r", "=", "%", "7", "B", "%", "7", "D">>,
   <<"d", "a", "t", "a", "s", "t", "a", "r", "=", "%", "7", "B", "%", "2", "2", "x", "%", "2", "2", "%", "3", "A", "1", "%", "2", "C", "%", "2", "2", "x", "%", "2", "2", "%", "3", "A", "n", "u", "l", "l", "%", "7", "D">>,
   <<"d", "a", "t", "a", "s", "t", "a", "r", "=", "7">>,
   <<"d", "a", "t", "a", "s", "t", "a", "r", "=", "%", "7", "B", "x">>,
   <<"d", "a", "t", "a", "s", "t", "a", "r", "=">>,
   <<"d", "a", "t", "a", "s", "t", "a", "r", "=", "1", "&", "d", "a", "t", "a", "s", "t", "a", "r", "=", "2">>,
   <<"a", "=", "1">>}

\* what the request's json method comes to: no such method, a promise that
\* resolves to a value, a promise that rejects
JsonInputs ==
  {<<"absent">>, <<"rejects">>,
   <<"resolves", Obj(<< <<"x", Num(1)>> >>)>>,
   <<"resolves", Null>>}

\* the body field of the request: none, or what a body parser left there
BodyInputs ==
  {Undefined, Null, Obj(<< <<"y", Num(3)>> >>), Str(<<>>)}

\* the requests a context is bound to
RequestInputs ==
  {[method |-> "GET", url |-> UrlPath, body |-> Undefined,
    json |-> <<"absent">>, readable |-> TRUE]}
    \cup {[method |-> "GET", url |-> UrlPath \o <<"?">> \o query, body |-> Undefined,
            json |-> <<"absent">>, readable |-> TRUE] : query \in QueryInputs}
    \cup {[method |-> method, url |-> UrlPath, body |-> body,
            json |-> json, readable |-> readable] :
            method \in {"POST", "PUT"}, body \in BodyInputs,
            json \in JsonInputs, readable \in BOOLEAN}

\* the chunks the request stream emits
ChunkInputs ==
  {<<"{", "\"", "x", "\"", ":">>, <<"1">>, <<"}">>, <<"{", "\"", "y", "\"", ":", "2", "}">>}

\* the calls of a handler that streams events, as in examples/commonHandlers.js
StreamEventTypes == {Str(<<"p", "i", "n", "g">>)}
StreamDataLines == {<< <<"a">> >>}
StreamSendOptions == {Undefined, Obj(<< <<"eventId", Num(7)>> >>)}
StreamFragments == {Undefined, Num(5), Str(<<"<", "p", ">">>)}
StreamSelectors == {Undefined, Str(<<"#", "a">>)}
StreamSignals == {Undefined, Obj(<< <<"x", Num(1)>> >>)}
StreamPaths == {Undefined, Arr(<<Str(<<"a">>)>>)}
StreamScripts == {Str(<<"a", "(", ")">>)}
StreamOptions == {Undefined}

\* ------------------------------------------------------------------ actions

\* ServerSentEventGenerator(request, response), once per context
\* ReadSignals has not been called
NotCalled ==
  [status |-> "idle", value |-> Undefined, source |-> "none",
   signals |-> Undefined, jsonCalled |-> FALSE]

\* nothing has come out of the request stream
Untouched ==
  [emitted |-> <<>>, chunks |-> <<>>, ended |-> FALSE, errored |-> FALSE,
   uncaught |-> FALSE]

Init ==
  /\ isBun \in BOOLEAN
  /\ res \in [Ctx -> ResKinds]
  /\ headers = [c \in Ctx |-> HeaderSet]
  /\ headersSent = [c \in Ctx |-> FALSE]
  /\ resLog = [c \in Ctx |-> <<>>]
  /\ last = [ctx |-> 0, op |-> "none", args |-> <<>>, outcome |-> "none",
             err |-> "", eventType |-> Undefined, lines |-> <<>>,
             sendOptions |-> Undefined, ret |-> <<>>, wrote |-> FALSE]
  /\ req = [method |-> "GET", url |-> UrlPath, body |-> Undefined,
            json |-> <<"absent">>, readable |-> TRUE]
  /\ read = NotCalled
  /\ stream = Untouched
  /\ backendStore = Obj(<<>>)
  /\ served = 0

\* sse._send(eventType, dataLines, sendOptions), called directly
SendDirect(c, eventTypes, dataLinesSet, optionsSet) ==
  \E eventType \in eventTypes, dataLines \in dataLinesSet, sendOptions \in optionsSet :
    Send(c, "_send", <<eventType, dataLines, sendOptions>>,
         eventType, dataLines, sendOptions)

\* sse.MergeFragments(fragments, options)
MergeFragments(c, fragmentsSet, optionsSet) ==
  \E fragments \in fragmentsSet, options \in optionsSet :
    Apply(c, "MergeFragments", <<fragments, options>>,
          MergeFragmentsResult(fragments, options))

\* sse.RemoveFragments(selector, options)
RemoveFragments(c, selectors, optionsSet) ==
  \E selector \in selectors, options \in optionsSet :
    Apply(c, "RemoveFragments", <<selector, options>>,
          RemoveFragmentsResult(selector, options))

\* sse.MergeSignals(signals, options)
MergeSignals(c, signalsSet, optionsSet) ==
  \E signals \in signalsSet, options \in optionsSet :
    Apply(c, "MergeSignals", <<signals, options>>,
          MergeSignalsResult(signals, options))

\* sse.RemoveSignals(paths, options)
RemoveSignals(c, pathsSet, optionsSet) ==
  \E paths \in pathsSet, options \in optionsSet :
    Apply(c, "RemoveSignals", <<paths, options>>,
          RemoveSignalsResult(paths, options))

\* sse.ExecuteScript(script, options)
ExecuteScript(c, scripts, optionsSet) ==
  \E script \in scripts, options \in optionsSet :
    Apply(c, "ExecuteScript", <<script, options>>,
          ExecuteScriptResult(script, options))

\* the number of events written to context c's response so far
Writes(c) == Cardinality({i \in 1..Len(resLog[c]) : resLog[c][i][1] = "write"})

\* a stream is cut off after MaxWrites events
CanWrite(c) == Writes(c) < MaxWrites

\* Any number of calls, in any order, on any context: a handler streaming events.
Next ==
  \E c \in Ctx :
    \/ CanWrite(c) /\ SendDirect(c, StreamEventTypes, StreamDataLines, StreamSendOptions)
    \/ CanWrite(c) /\ MergeFragments(c, StreamFragments, StreamOptions)
    \/ CanWrite(c) /\ RemoveFragments(c, StreamSelectors, StreamOptions)
    \/ CanWrite(c) /\ MergeSignals(c, StreamSignals, StreamOptions)
    \/ CanWrite(c) /\ RemoveSignals(c, StreamPaths, StreamOptions)
    \/ CanWrite(c) /\ ExecuteScript(c, StreamScripts, StreamOptions)

Spec == Init /\ [][Next]_vars

\* no call has been made yet
Fresh == last.op = "none"

\* One call on a fresh context, with every argument the input sets hold: the
\* specification of the claims about what a single call renders.
NextCall ==
  \E c \in Ctx :
    \/ Fresh /\ SendDirect(c, EventTypeInputs, DataLinesInputs, SendOptionsInputs)
    \/ Fresh /\ MergeFragments(c, FragmentsInputs, MergeFragmentsOptionsInputs)
    \/ Fresh /\ RemoveFragments(c, SelectorInputs, RemoveFragmentsOptionsInputs)
    \/ Fresh /\ MergeSignals(c, SignalsInputs, MergeSignalsOptionsInputs)
    \/ Fresh /\ RemoveSignals(c, PathsInputs, RemoveSignalsOptionsInputs)
    \/ Fresh /\ ExecuteScript(c, ScriptInputs, ExecuteScriptOptionsInputs)

SpecCall == Init /\ [][NextCall]_vars

\* One ExecuteScript call on a fresh context, over the scripts of SanitizerScripts:
\* the specification of the claims about the script sanitizer.
NextScan ==
  \E c \in Ctx :
    Fresh /\ ExecuteScript(c, SanitizerScripts,
                           {Undefined, Obj(<< <<"autoRemove", Bool(FALSE)>> >>)})

SpecScan == Init /\ [][NextScan]_vars

\* the promise of ReadSignals after a step that settles it or leaves it waiting
Settle(outcome) ==
  read' = [read EXCEPT !.status = outcome.status, !.value = outcome.value,
                       !.source = outcome.source]

\* the promise of a ReadSignals call that has run up to its first await or return
Started(outcome, signals, jsonCalled) ==
  [status |-> outcome.status, value |-> outcome.value, source |-> outcome.source,
   signals |-> signals, jsonCalled |-> jsonCalled]

\* sse.ReadSignals(signals), up to its first await or its return
ReadSignals(signals) ==
  /\ read.status = "idle"
  /\ IF req.method = "GET"
     THEN read' = Started(ReadQuery(req.url, signals), signals, FALSE)
     ELSE IF CallsJson(req)
     THEN read' = Started(Waiting("awaitingJson", "json"), signals, TRUE)
     ELSE read' = Started(ReadBody(req, req.body, signals, "body"), signals, FALSE)
  /\ UNCHANGED <<isBun, res, headers, headersSent, resLog, last, req, stream,
               backendStore, served>>

\* the promise of this.req.json() settles and ReadSignals runs on from its await
JsonSettles ==
  /\ read.status = "awaitingJson"
  /\ IF req.json[1] = "resolves"
     THEN Settle(ReadBody(req, req.json[2], read.signals, "json"))
     ELSE Settle(Rejected(Str(<<"S", "y", "n", "t", "a", "x", "E", "r", "r", "o", "r">>), "json"))
  /\ UNCHANGED <<isBun, res, headers, headersSent, resLog, last, req, stream,
               backendStore, served>>

\* the request stream is flowing: its listeners are on and it has not finished
Flowing == read.status = "draining" /\ ~stream.ended /\ ~stream.errored

\* the request emits "data": the listener of index.js:162 runs
StreamData(chunk) ==
  /\ Flowing
  /\ Len(stream.emitted) < MaxChunks
  /\ stream' = [stream EXCEPT !.emitted = Append(@, chunk),
                              !.chunks = Accumulate(@, chunk)]
  /\ UNCHANGED <<isBun, res, headers, headersSent, resLog, last, req, read,
               backendStore, served>>

\* resolve(JSON.parse(chunks)) and the return that follows it; a SyntaxError
\* leaves the listener and the promise is not settled
ReadAfterEnd(pending, chunks) ==
  LET body == JsonParse(chunks)
  IN IF body.ok
     THEN [pending EXCEPT !.status = "resolved",
                          !.value = SpreadMerge(pending.signals, body.value)]
     ELSE pending

\* the request emits "end": the listener of index.js:165 parses what was kept
StreamEnd ==
  /\ Flowing
  /\ read' = ReadAfterEnd(read, stream.chunks)
  /\ stream' = [stream EXCEPT !.ended = TRUE,
                              !.uncaught = ~JsonParse(stream.chunks).ok]
  /\ UNCHANGED <<isBun, res, headers, headersSent, resLog, last, req,
               backendStore, served>>

\* the request emits "error": no listener of ReadSignals is on that event, the
\* emitter throws, the promise is not settled and no "end" follows
StreamError ==
  /\ Flowing
  /\ stream' = [stream EXCEPT !.errored = TRUE, !.uncaught = TRUE]
  /\ UNCHANGED <<isBun, res, headers, headersSent, resLog, last, req, read,
               backendStore, served>>

\* a request arrives and its handler builds a context around it
InitRead ==
  /\ isBun = FALSE
  /\ res = [c \in Ctx |-> "writable"]
  /\ headers = [c \in Ctx |-> HeaderSet]
  /\ headersSent = [c \in Ctx |-> FALSE]
  /\ resLog = [c \in Ctx |-> <<>>]
  /\ last = [ctx |-> 0, op |-> "none", args |-> <<>>, outcome |-> "none",
             err |-> "", eventType |-> Undefined, lines |-> <<>>,
             sendOptions |-> Undefined, ret |-> <<>>, wrote |-> FALSE]
  /\ req \in RequestInputs
  /\ read = NotCalled
  /\ stream = Untouched
  /\ backendStore = Obj(<<>>)
  /\ served = 0

\* One ReadSignals call on a request, and what the request then does.
NextRead ==
  \/ \E signals \in BaselineInputs : ReadSignals(signals)
  \/ JsonSettles
  \/ \E chunk \in ChunkInputs : StreamData(chunk)
  \/ StreamEnd
  \/ StreamError

SpecRead == InitRead /\ [][NextRead]_vars


\* a request that carries no signals: an empty JSON object in the query of a
\* GET, or as the parsed body of a POST
EmptyRequests ==
  {[method |-> "GET",
    url |-> UrlPath \o <<"?">> \o DatastarKey \o <<"=", "%", "7", "B", "%", "7", "D">>,
    body |-> Undefined, json |-> <<"absent">>, readable |-> TRUE],
   [method |-> "POST", url |-> UrlPath, body |-> Obj(<<>>),
    json |-> <<"absent">>, readable |-> TRUE]}

\* the requests that carry their signals with them: in the query, in the
\* parsed body, or behind json()
CarriedRequests ==
  {r \in RequestInputs :
     \/ r.method = "GET"
     \/ CallsJson(r) /\ r.json[1] = "resolves" /\ Truthy(r.json[2])
     \/ ~CallsJson(r) /\ Truthy(r.body)}

\* backendStore = await sse.ReadSignals(backendStore): the result is stored, the
\* response ends, and the next request arrives, the same one again or one
\* without signals
StoreSignals ==
  /\ read.status = "resolved"
  /\ served < MaxRequests
  /\ backendStore' = read.value
  /\ served' = served + 1
  /\ req' \in {req} \cup EmptyRequests
  /\ read' = NotCalled
  /\ stream' = Untouched
  /\ UNCHANGED <<isBun, res, headers, headersSent, resLog, last>>

\* a handler holds a store and the first request arrives
InitStore ==
  /\ isBun = FALSE
  /\ res = [c \in Ctx |-> "writable"]
  /\ headers = [c \in Ctx |-> HeaderSet]
  /\ headersSent = [c \in Ctx |-> FALSE]
  /\ resLog = [c \in Ctx |-> <<>>]
  /\ last = [ctx |-> 0, op |-> "none", args |-> <<>>, outcome |-> "none",
             err |-> "", eventType |-> Undefined, lines |-> <<>>,
             sendOptions |-> Undefined, ret |-> <<>>, wrote |-> FALSE]
  /\ req \in CarriedRequests
  /\ read = NotCalled
  /\ stream = Untouched
  /\ backendStore \in BaselineInputs
  /\ served = 0

\* A handler that reads the signals of request after request into its store.
NextStore ==
  \/ ReadSignals(backendStore)
  \/ JsonSettles
  \/ StoreSignals

SpecStore == InitStore /\ [][NextStore]_vars

\* The event loop runs the continuation of a promise that has settled; what
\* the request stream emits, and when, is up to the client.
SpecReadFair == SpecRead /\ WF_vars(JsonSettles)

\* ------------------------------------------------------------------ claims

IsSetHeader(call) == call[1] = "setHeader"
IsWrite(call) == call[1] = "write"

\* the positions of the setHeader calls in context c's response log
SetHeaderAt(c) == {i \in 1..Len(resLog[c]) : IsSetHeader(resLog[c][i])}

\* C1: on one context, over any sequence of calls of _send (direct or through
\* the builders), the header set is written at most once: no header is set
\* twice, and there are never more setHeader calls than the set has headers.
C1_HeadersWrittenAtMostOnce ==
  \A c \in Ctx :
    /\ Cardinality(SetHeaderAt(c)) <= Len(headers[c])
    /\ \A i, j \in SetHeaderAt(c) : resLog[c][i][2] = resLog[c][j][2] => i = j

\* two events and more were written on a context whose headers were set
C1_Witness ==
  \E c \in Ctx : Writes(c) >= 2 /\ Cardinality(SetHeaderAt(c)) = Len(headers[c])

\* a response that is mutated in place: bound, written to, and not under Bun
MutatedInPlace(c) == res[c] = "writable" /\ ~isBun

\* C2: on a context whose response is mutated in place, every header write
\* comes strictly before the first write of an event, and no event is written
\* while a header of the set has not been set.
C2_HeadersBeforeFirstWrite ==
  \A c \in Ctx :
    MutatedInPlace(c) =>
      \A j \in 1..Len(resLog[c]) :
        IsWrite(resLog[c][j]) =>
          /\ \A i \in SetHeaderAt(c) : i < j
          /\ \A k \in 1..Len(headers[c]) :
               \E i \in 1..(j - 1) :
                 resLog[c][i] = <<"setHeader", headers[c][k][1], headers[c][k][2]>>

\* an event was written on a response that is mutated in place
C2_Witness == \E c \in Ctx : MutatedInPlace(c) /\ Writes(c) >= 1

\* the header set of the specification (section 6)
DocumentedHeaders ==
  {<<"Cache-Control", "no-cache">>, <<"Connection", "keep-alive">>,
   <<"Content-Type", "text/event-stream">>}

\* C3: the header set written on the first send, and exposed as `headers`, is
\* exactly Cache-Control: no-cache, Connection: keep-alive and
\* Content-Type: text/event-stream.
C3_DocumentedHeaderSet ==
  \A c \in Ctx :
    headersSent[c] =>
      /\ {headers[c][k] : k \in 1..Len(headers[c])} = DocumentedHeaders
      /\ (~isBun /\ res[c] # "undefined") =>
           {<<resLog[c][i][2], resLog[c][i][3]>> : i \in SetHeaderAt(c)}
             = DocumentedHeaders

\* the last call returned an event (it did not throw)
Returned == last.outcome = "return"

HasPrefix(s, prefix) ==
  Len(s) >= Len(prefix) /\ SubSeq(s, 1, Len(prefix)) = prefix

\* the lines of `prefix` in a rendered event (the pieces between its line feeds)
LinesWith(event, prefix) ==
  SelectSeq(SplitLines(event), LAMBDA line : HasPrefix(line, prefix))

\* 1 if b, else 0
Count(b) == IF b THEN 1 ELSE 0

\* C4: the string rendered by _send is, in this order: the line
\* comment: "dev"; an id line iff an event id is provided (0 included); an
\* event line iff the event type is non-empty; one retry line; one data line
\* per entry of dataLines, in order; a blank line; each line ends in a line feed.
C4_EventFraming ==
  Returned =>
    LET piece == SplitLines(last.ret)
        eventId == OptGet(last.sendOptions, "eventId")
        hasId == NotNullish(eventId)
        hasEvent == TypeOf(last.eventType) = "string" /\ last.eventType[2] # <<>>
        eventAt == 2 + Count(hasId)
        retryAt == eventAt + Count(hasEvent)
        n == Len(last.lines)
    IN /\ Len(piece) = retryAt + n + 2
       /\ piece[1] = CommentLine
       /\ hasId => piece[2] = IdPrefix \o JsString(eventId)
       /\ hasEvent => piece[eventAt] = EventPrefix \o last.eventType[2]
       /\ HasPrefix(piece[retryAt], RetryPrefix)
       /\ \A i \in 1..n : piece[retryAt + i] = DataPrefix \o last.lines[i]
       /\ piece[retryAt + n + 1] = <<>>
       /\ piece[retryAt + n + 2] = <<>>

\* _send was called with event id 0, an event type and three data lines
C4_Witness ==
  /\ last.op = "_send" /\ Returned
  /\ OptGet(last.sendOptions, "eventId") = Num(0)
  /\ Truthy(last.eventType)
  /\ Len(last.lines) = 3

\* the options the caller gave: _send's third argument, a builder's second
CallerOptions == IF last.op = "_send" THEN last.args[3] ELSE last.args[2]

IsDigit(ch) == ch \in {"0", "1", "2", "3", "4", "5", "6", "7", "8", "9"}

\* C5: when the caller provides no retryDuration (to _send or in the options
\* of a builder, with or without an options object) the retry line is
\* `retry: 1000`; every retry line carries a non-negative integer.
C5_RetryDefault ==
  Returned =>
    LET retry == LinesWith(last.ret, RetryPrefix)
        value == SubSeq(retry[1], Len(RetryPrefix) + 1, Len(retry[1]))
    IN /\ Len(retry) = 1
       /\ value # <<>> /\ \A i \in 1..Len(value) : IsDigit(value[i])
       /\ ~NotNullish(OptGet(CallerOptions, "retryDuration")) =>
            value = <<"1", "0", "0", "0">>

RECURSIVE WithoutLineBreaks(_)
\* s with every carriage return and line feed left out
WithoutLineBreaks(s) ==
  IF s = <<>> THEN <<>>
  ELSE IF Head(s) \in {CR, LF} THEN WithoutLineBreaks(Tail(s))
  ELSE <<Head(s)>> \o WithoutLineBreaks(Tail(s))

\* the fragments of a MergeFragments call that returned: one string, or the
\* strings of a sequence
FragmentsGiven ==
  IF TypeOf(last.args[1]) = "string" THEN <<last.args[1][2]>>
  ELSE [i \in 1..Len(last.args[1][2]) |-> last.args[1][2][i][2]]

\* C6: for a fragment input (a string or a sequence of strings) the event of
\* MergeFragments has exactly one `data: fragments ...` line per fragment, in
\* input order, and none holds a carriage return or a line feed.
C6_OneLinePerFragment ==
  (last.op = "MergeFragments" /\ Returned) =>
    LET line == LinesWith(last.ret, DataPrefix \o FragmentsPrefix)
    IN /\ Len(line) = Len(FragmentsGiven)
       /\ \A i \in 1..Len(line) :
            /\ line[i] = DataPrefix \o FragmentsPrefix
                           \o WithoutLineBreaks(FragmentsGiven[i])
            /\ \A k \in 1..Len(line[i]) : line[i][k] \notin {CR, LF}

\* MergeFragments returned for a sequence of three fragments, one holding a
\* line feed and one a carriage return
C6_Witness ==
  /\ last.op = "MergeFragments" /\ Returned
  /\ TypeOf(last.args[1]) = "array" /\ Len(last.args[1][2]) = 3
  /\ \E k \in 1..Len(FragmentsGiven[1]) : FragmentsGiven[1][k] = LF
  /\ \E k \in 1..Len(FragmentsGiven[3]) : FragmentsGiven[3][k] = CR

\* a sequence of strings
IsStringArray(v) ==
  TypeOf(v) = "array" /\ \A i \in 1..Len(v[2]) : TypeOf(v[2][i]) = "string"

\* a string that is not empty (the empty string counts as no input)
IsGivenString(v) == TypeOf(v) = "string" /\ v[2] # <<>>

\* no input: undefined, null or the empty string
IsNoInput(v) == v \in {Undefined, Null, Str(<<>>)}

\* C7: MergeFragments with no fragment input and RemoveFragments with no
\* selector input (undefined, null or the empty string) fail with their
\* validation error; with valid input (a non-empty string or a sequence of
\* strings; a non-empty selector string) and any options or none they never
\* fail.
C7_FragmentsValidation ==
  /\ (last.op = "MergeFragments" /\ IsNoInput(last.args[1])) =>
       (last.outcome = "throw" /\ last.err = "MergeFragments missing fragment(s).")
  /\ (last.op = "RemoveFragments" /\ IsNoInput(last.args[1])) =>
       (last.outcome = "throw" /\ last.err = "RemoveFragments missing selector.")
  /\ (last.op = "MergeFragments"
        /\ (IsGivenString(last.args[1]) \/ IsStringArray(last.args[1]))) => Returned
  /\ (last.op = "RemoveFragments" /\ IsGivenString(last.args[1])) => Returned

\* MergeFragments returned for a sequence of strings, with null for options
C7_Witness ==
  /\ last.op = "MergeFragments" /\ Returned
  /\ IsStringArray(last.args[1]) /\ last.args[1][2] # <<>>
  /\ last.args[2] = Null

Builders ==
  {"MergeFragments", "RemoveFragments", "MergeSignals", "RemoveSignals", "ExecuteScript"}

\* C8: every call of a command builder that returns an event passed a
\* non-empty list of data lines to the encoder, so that the event has at least
\* one data line.
C8_DataLinesNonEmpty ==
  (last.op \in Builders /\ Returned) =>
    /\ Len(last.lines) >= 1
    /\ Len(LinesWith(last.ret, DataPrefix)) >= 1

\* the prefix of a builder's payload lines
PayloadPrefix(op) ==
  CASE op = "MergeFragments" -> FragmentsPrefix
    [] op = "RemoveFragments" -> SelectorPrefix
    [] op = "MergeSignals" -> SignalsPrefix
    [] op = "RemoveSignals" -> PathsPrefix
    [] op = "ExecuteScript" -> ScriptPrefix

\* C9: in every event of a command builder all option lines come before all
\* payload lines; in a RemoveFragments event settleDuration and
\* useViewTransition precede the selector line.
C9_OptionsBeforePayload ==
  (last.op \in Builders /\ Returned) =>
    \A i, j \in 1..Len(last.lines) :
      (HasPrefix(last.lines[i], PayloadPrefix(last.op))
         /\ ~HasPrefix(last.lines[j], PayloadPrefix(last.op))) => j < i

MergeModePrefix == <<"m", "e", "r", "g", "e", "M", "o", "d", "e", " ">>

\* C10: MergeFragments called with a mergeMode option renders a line
\* `data: mergeMode <value>`, after the selector line and before the
\* settleDuration line where there are such lines.
C10_MergeModeLine ==
  (last.op = "MergeFragments" /\ Returned
     /\ NotNullish(OptGet(last.args[2], "mergeMode"))) =>
    \E i \in 1..Len(last.lines) :
      /\ last.lines[i] = MergeModePrefix \o JsString(OptGet(last.args[2], "mergeMode"))
      /\ Len(LinesWith(last.ret, DataPrefix \o last.lines[i])) = 1
      /\ \A j \in 1..Len(last.lines) :
           /\ HasPrefix(last.lines[j], SelectorPrefix) => j < i
           /\ HasPrefix(last.lines[j], SettleDurationPrefix) => i < j

\* C11: a MergeSignals event carries the line `onlyIfMissing true` iff the
\* option onlyIfMissing is the boolean true, and after it the payload line
\* `signals ` followed by the JSON serialization of the signal map.
C11_OnlyIfMissingAndSignals ==
  (last.op = "MergeSignals" /\ Returned) =>
    LET flagged == OptGet(last.args[2], "onlyIfMissing") = Bool(TRUE)
        payload == SignalsPrefix \o JsonStringify(last.args[1])
    IN /\ last.lines = (IF flagged THEN <<OnlyIfMissingLine>> ELSE <<>>) \o <<payload>>
       /\ Len(LinesWith(last.ret, DataPrefix \o OnlyIfMissingLine)) = Count(flagged)
       /\ LinesWith(last.ret, DataPrefix \o SignalsPrefix) = <<DataPrefix \o payload>>
       /\ last.args[1] = Obj(<< <<"x", Num(1)>> >>) =>
            payload = SignalsPrefix \o <<"{", "\"", "x", "\"", ":", "1", "}">>

\* MergeSignals returned for a map of three signals with onlyIfMissing: true
C11_Witness ==
  /\ last.op = "MergeSignals" /\ Returned
  /\ OptGet(last.args[2], "onlyIfMissing") = Bool(TRUE)
  /\ Len(last.args[1][2]) = 3
  /\ Len(last.lines) = 2

\* C12: the data lines of a RemoveSignals event are exactly one `paths <path>`
\* line per path, in input order, and no other data line.
C12_OneLinePerPath ==
  (last.op = "RemoveSignals" /\ Returned) =>
    LET path == last.args[1][2]
    IN /\ last.lines = [i \in 1..Len(path) |-> PathsPrefix \o path[i][2]]
       /\ LinesWith(last.ret, DataPrefix)
            = [i \in 1..Len(path) |-> DataPrefix \o PathsPrefix \o path[i][2]]

\* RemoveSignals returned for the paths a and b
C12_Witness ==
  /\ last.op = "RemoveSignals" /\ Returned
  /\ last.args[1] = Arr(<<Str(<<"a">>), Str(<<"b">>)>>)
  /\ last.lines = <<PathsPrefix \o <<"a">>, PathsPrefix \o <<"b">>>>


\* the least element of a non-empty set of positions
FirstOf(positions) == CHOOSE i \in positions : \A j \in positions : i <= j

QuotesIn(line) == {i \in 1..Len(line) : line[i] \in {"\"", "'"}}
LiteralOpen(line) == FirstOf(QuotesIn(line))
LiteralClose(line) == FirstOf({j \in QuotesIn(line) : j > LiteralOpen(line)})
SlashesAfter(line, j) == {k \in (j + 1)..Len(line) : line[k] = "/"}

\* the line is code, one string literal with // and no backslash in it, code
\* without quotes, and then a // comment
HasLiteralThenComment(line) ==
  /\ Cardinality(QuotesIn(line)) >= 2
  /\ LET i == LiteralOpen(line)
         j == LiteralClose(line)
     IN /\ line[j] = line[i]
        /\ \A t \in (i + 1)..(j - 1) : line[t] # "\\"
        /\ \E t \in (i + 1)..(j - 2) : line[t] = "/" /\ line[t + 1] = "/"
        /\ \A t \in 1..(i - 1) : line[t] # "/"
        /\ SlashesAfter(line, j) # {}
        /\ LET k == FirstOf(SlashesAfter(line, j))
           IN /\ k < Len(line)
              /\ line[k + 1] = "/"
              /\ \A t \in (j + 1)..(k - 1) : line[t] \notin {"\"", "'"}

\* the line up to its outside // comment, without the white space around it
CodeBeforeComment(line) ==
  Trim(SubSeq(line, 1, FirstOf(SlashesAfter(line, LiteralClose(line))) - 1))

\* C13: a script whose every line holds a string literal with // in it and then
\* a // comment is rendered as one script data line: each line's code up to the
\* outside //, the literal kept character for character, the lines joined by a
\* space, and no line break in it.
C13_LiteralKeptCommentDropped ==
  (/\ last.op = "ExecuteScript"
   /\ Returned
   /\ TypeOf(last.args[1]) = "string"
   /\ \A n \in 1..Len(SplitLines(last.args[1][2])) :
        HasLiteralThenComment(SplitLines(last.args[1][2])[n])) =>
    LET lines == SplitLines(last.args[1][2])
        kept == [n \in 1..Len(lines) |-> CodeBeforeComment(lines[n])]
        payload == ScriptPrefix \o JoinWith(kept, <<" ">>)
    IN /\ LinesWith(last.ret, DataPrefix \o ScriptPrefix) = <<DataPrefix \o payload>>
       /\ \A n \in 1..Len(lines) :
            LET i == LiteralOpen(lines[n])
                j == LiteralClose(lines[n])
            IN \E at \in 1..Len(payload) :
                 SubSeq(payload, at, at + j - i) = SubSeq(lines[n], i, j)
       /\ \A at \in 1..Len(payload) : payload[at] # LF
       /\ last.lines[Len(last.lines)] = payload

C13_Witness ==
  /\ last.op = "ExecuteScript"
  /\ Returned
  /\ last.args[1] = Str(<<" ", "f", "(", "'", "/", "/", "x", "'", ")", ";", " ", "/", "/", " ", "c", LF,
                          "f", "(", "'", "/", "/", "'", ")", " ", "/", "/">>)
  /\ last.lines = <<ScriptPrefix \o <<"f", "(", "'", "/", "/", "x", "'", ")", ";", " ",
                                      "f", "(", "'", "/", "/", "'", ")">> >>

\* C14: a script that holds nothing but comments and white space is rendered
\* without any script data line.
C14_CommentOnlyOmitsScriptLine ==
  (/\ last.op = "ExecuteScript"
   /\ Returned
   /\ last.args[1] \in CommentOnlyScripts) =>
    LinesWith(last.ret, DataPrefix \o ScriptPrefix) = <<>>


\* the keys of an object
Keys(o) == {o[2][i][1] : i \in 1..Len(o[2])}

\* the object holds exactly the entries of q and, for the keys q does not
\* hold, those of b, each key once
IsMergeOver(o, q, b) ==
  /\ TypeOf(o) = "object"
  /\ Keys(o) = Keys(q) \cup Keys(b)
  /\ Len(o[2]) = Cardinality(Keys(o))
  /\ \A k \in Keys(q) : Get(o, k) = Get(q, k)
  /\ \A k \in Keys(b) \ Keys(q) : Get(o, k) = Get(b, k)

\* the datastar parameter of the request's query string, parsed as JSON
QueryValue == JsonParse(ParsedText(DatastarParam(UrlQuery(req.url))))

\* C15: a GET request whose datastar query parameter is a JSON object Q, read
\* over a baseline map B, resolves to the shallow merge of Q over B: Q's value
\* for every key of Q, B's value for every other key of B, and no other key;
\* `?datastar={"x":1}` over {"x":0,"y":2} gives {"x":1,"y":2}.
C15_QueryMergedOverBaseline ==
  (/\ req.method = "GET"
   /\ read.status # "idle"
   /\ TypeOf(read.signals) = "object"
   /\ QueryValue.ok
   /\ TypeOf(QueryValue.value) = "object") =>
    /\ read.status = "resolved"
    /\ IsMergeOver(read.value, QueryValue.value, read.signals)
    /\ (/\ req.url = UrlPath \o <<"?", "d", "a", "t", "a", "s", "t", "a", "r", "=", "%", "7", "B", "%", "2", "2", "x", "%", "2", "2", "%", "3", "A", "1", "%", "7", "D">>
        /\ read.signals = Obj(<< <<"x", Num(0)>>, <<"y", Num(2)>> >>)) =>
         /\ Keys(read.value) = {"x", "y"}
         /\ Get(read.value, "x") = Num(1)
         /\ Get(read.value, "y") = Num(2)

C15_Witness ==
  /\ req.method = "GET"
  /\ req.url = UrlPath \o <<"?", "d", "a", "t", "a", "s", "t", "a", "r", "=", "%", "7", "B", "%", "2", "2", "x", "%", "2", "2", "%", "3", "A", "1", "%", "7", "D">>
  /\ read.signals = Obj(<< <<"x", Num(0)>>, <<"y", Num(2)>> >>)
  /\ read.status = "resolved"
  /\ read.value = Obj(<< <<"x", Num(1)>>, <<"y", Num(2)>> >>)

\* C16: when the request stream emits an error while ReadSignals drains it,
\* the call goes on to reject.
C16_StreamErrorRejects ==
  (read.source = "stream" /\ stream.errored) ~> (read.status = "rejected")

\* C17: a call that drains the stream resolves only once the request has
\* ended, and its result is the JSON value of all the chunks the request
\* emitted, concatenated in the order of their arrival, merged over the baseline.
C17_ResolvesAtEndFromAllChunks ==
  (read.source = "stream" /\ read.status = "resolved") =>
    LET body == JsonParse(Flatten(stream.emitted))
    IN /\ stream.ended
       /\ body.ok
       /\ read.value = SpreadMerge(read.signals, body.value)
       /\ stream.emitted = << <<"{", "\"", "x", "\"", ":">>, <<"1">>, <<"}">> >> =>
            Get(read.value, "x") = Num(1)

C17_Witness ==
  /\ read.source = "stream"
  /\ read.status = "resolved"
  /\ stream.emitted = << <<"{", "\"", "x", "\"", ":">>, <<"1">>, <<"}">> >>
  /\ read.signals = Obj(<< <<"x", Num(0)>>, <<"y", Num(2)>> >>)
  /\ read.value = Obj(<< <<"x", Num(1)>>, <<"y", Num(2)>> >>)

\* C18: when the request ends and the text kept from its stream is not valid
\* JSON (an empty body included), the call goes on to reject.
C18_InvalidBodyRejects ==
  (read.source = "stream" /\ stream.ended /\ ~JsonParse(Flatten(stream.emitted)).ok)
    ~> (read.status = "rejected")

\* a call of ReadSignals on a request that is not a GET has run to its end
\* or to the point where it waits for the stream
PastBodyChoice ==
  req.method # "GET" /\ read.status \notin {"idle", "awaitingJson"}

HasJson == req.json[1] # "absent"
HasBody == Truthy(req.body)

\* C19 as stated: a parsed body that is present is used and json() is not
\* called; json() is called only without a parsed body; the stream is drained
\* only when neither gives a body.
C19_BodyBeforeJson ==
  PastBodyChoice =>
    /\ HasBody => ~read.jsonCalled /\ read.source = "body"
    /\ read.jsonCalled => ~HasBody /\ HasJson
    /\ read.source = "stream" =>
         ~HasBody /\ (HasJson => req.json[1] = "resolves" /\ ~Truthy(req.json[2]))

\* C19 amended: json() is called exactly when the request has it, whatever
\* the body field holds, and what it resolves to is the body; the body field
\* is used only on a request without json(); the stream is drained exactly
\* when the body so chosen is falsy.
C19_JsonBeforeBody ==
  PastBodyChoice =>
    LET chosen == IF HasJson THEN req.json[2] ELSE req.body
    IN /\ read.jsonCalled <=> HasJson
       /\ (HasJson /\ req.json[1] = "rejects") =>
            read.status = "rejected" /\ read.source = "json"
       /\ ~(HasJson /\ req.json[1] = "rejects") =>
            /\ read.source = "stream" <=> ~Truthy(chosen)
            /\ Truthy(chosen) =>
                 /\ read.status = "resolved"
                 /\ read.source = (IF HasJson THEN "json" ELSE "body")
                 /\ IsMergeOver(read.value, chosen,
                                IF TypeOf(read.signals) = "object" THEN read.signals
                                ELSE Obj(<<>>))

C19_Witness ==
  /\ PastBodyChoice
  /\ req.body = Obj(<< <<"y", Num(3)>> >>)
  /\ req.json = <<"resolves", Obj(<< <<"x", Num(1)>> >>)>>
  /\ read.jsonCalled
  /\ read.signals = Obj(<<>>)
  /\ read.status = "resolved"
  /\ read.value = Obj(<< <<"x", Num(1)>> >>)

\* C20: a call of a command builder that fails validation calls nothing on the
\* response and leaves headersSent as it was; the next send that returns on
\* that context, if none returned before, still sets the headers before it
\* writes its event.
C20_FailedCallEmitsNothing ==
  [][/\ last'.outcome = "throw" =>
          /\ resLog' = resLog
          /\ headersSent' = headersSent
     /\ (/\ last.outcome = "throw"
         /\ last'.outcome = "return"
         /\ last'.ctx = last.ctx
         /\ ~headersSent[last.ctx]
         /\ MutatedInPlace(last.ctx)) =>
          /\ resLog[last.ctx] = <<>>
          /\ resLog'[last.ctx]
               = [i \in 1..Len(headers[last.ctx]) |->
                    <<"setHeader", headers[last.ctx][i][1], headers[last.ctx][i][2]>>]
                 \o << <<"write">> >>
          /\ headersSent'[last.ctx]]_vars

\* a builder failed validation on a context that had sent an event before
C20_Witness ==
  /\ last.outcome = "throw"
  /\ last.op = "MergeFragments"
  /\ last.args[1] = Num(5)
  /\ headersSent[last.ctx]
  /\ Writes(last.ctx) >= 1


\* the line is code without quotes or slashes around one string literal that
\* holds neither its own quote nor a backslash
IsOneLiteralLine(line) ==
  /\ Cardinality(QuotesIn(line)) >= 2
  /\ LET i == LiteralOpen(line)
         same == {j \in (i + 1)..Len(line) : line[j] = line[i]}
     IN /\ same # {}
        /\ LET j == FirstOf(same)
           IN /\ \A t \in (i + 1)..(j - 1) : line[t] # "\\"
              /\ \A t \in (1..(i - 1)) \cup ((j + 1)..Len(line)) :
                   line[t] \notin {"\"", "'", "/"}

\* C22: a string literal ends only at its own kind of quote: a one-line script
\* that is code around one literal, whatever the literal holds of the other
\* kind of quote, of // and of /*, is rendered character for character.
C22_OtherQuoteKeepsString ==
  (/\ last.op = "ExecuteScript"
   /\ Returned
   /\ TypeOf(last.args[1]) = "string"
   /\ Len(SplitLines(last.args[1][2])) = 1
   /\ IsOneLiteralLine(last.args[1][2])) =>
    LinesWith(last.ret, DataPrefix \o ScriptPrefix)
      = <<DataPrefix \o ScriptPrefix \o Trim(last.args[1][2])>>

\* C25: the payload of the script data line holds no line feed and no carriage
\* return, whatever line endings the script uses.
C25_NoLineBreakInScriptLine ==
  (last.op = "ExecuteScript" /\ Returned) =>
    \A n \in 1..Len(last.lines) :
      \A at \in 1..Len(last.lines[n]) : last.lines[n][at] \notin {LF, CR}


\* the quote character that is not q
OtherQuote(q) == IF q = "'" THEN "\"" ELSE "'"

\* the number of backslashes in a row right before position j, back to position i
BackslashesBefore(line, i, j) ==
  LET runs == {n \in 0..(j - i - 1) : \A t \in 1..n : line[j - t] = "\\"}
  IN CHOOSE n \in runs : \A m \in runs : m <= n

\* the quotes of the opening kind after the opening quote that an even number
\* of backslashes precedes
UnescapedCloses(line) ==
  LET i == LiteralOpen(line)
  IN {j \in (i + 1)..Len(line) :
        line[j] = line[i] /\ BackslashesBefore(line, i, j) % 2 = 0}

\* where the code of the line ends: before the first slash after the literal,
\* or with the line
CodeEnd(line) ==
  LET slashes == SlashesAfter(line, FirstOf(UnescapedCloses(line)))
  IN IF slashes = {} THEN Len(line) ELSE FirstOf(slashes) - 1

\* the line is code without quotes or slashes, a string literal with
\* backslashes that holds no quote of the other kind, code without quotes or
\* slashes and then, possibly, a // comment
IsEscapedLiteralLine(line) ==
  /\ QuotesIn(line) # {}
  /\ UnescapedCloses(line) # {}
  /\ LET i == LiteralOpen(line)
         j == FirstOf(UnescapedCloses(line))
         slashes == SlashesAfter(line, j)
     IN /\ \E t \in (i + 1)..(j - 1) : line[t] = "\\"
        /\ \A t \in (i + 1)..(j - 1) : line[t] # OtherQuote(line[i])
        /\ \A t \in 1..(i - 1) : line[t] # "/"
        /\ \A t \in (j + 1)..CodeEnd(line) : line[t] \notin {"\"", "'"}
        /\ slashes # {} =>
             FirstOf(slashes) < Len(line) /\ line[FirstOf(slashes) + 1] = "/"

\* C23: inside a string literal a quote after an unescaped backslash does not
\* end the string and a quote after an escaped backslash does: the literal of
\* every line runs to the first quote of its kind that an even number of
\* backslashes precedes, and the // comment after it is dropped.
C23_EscapeFlag ==
  (/\ last.op = "ExecuteScript"
   /\ Returned
   /\ TypeOf(last.args[1]) = "string"
   /\ \A n \in 1..Len(SplitLines(last.args[1][2])) :
        IsEscapedLiteralLine(SplitLines(last.args[1][2])[n])) =>
    LET lines == SplitLines(last.args[1][2])
        kept == [n \in 1..Len(lines) |-> Trim(SubSeq(lines[n], 1, CodeEnd(lines[n])))]
    IN LinesWith(last.ret, DataPrefix \o ScriptPrefix)
         = <<DataPrefix \o ScriptPrefix \o JoinWith(kept, <<" ">>)>>

C23_Witness ==
  /\ last.op = "ExecuteScript"
  /\ Returned
  /\ last.args[1] = Str(<<"\"", "a", "\\", "\"", "/", "/", "b", "\"", " ", "/", "/", "c", LF,
                          "'", "a", "\\", "\\", "'", "/", "/", "b", "'">>)
  /\ last.lines = <<ScriptPrefix \o <<"\"", "a", "\\", "\"", "/", "/", "b", "\"", " ",
                                      "'", "a", "\\", "\\", "'">> >>


\* the positions of the text where the two characters first, second stand
PairsAt(text, first, second) ==
  {p \in 1..(Len(text) - 1) : text[p] = first /\ text[p + 1] = second}

\* the line feeds of a text
LineFeedsOf(text) == SelectSeq(text, LAMBDA ch : ch = LF)

RECURSIVE WithoutBlockComments(_)
\* the text with every block comment replaced by the line feeds it holds: a
\* comment runs from a /* to the first */ that starts after it, or to the end
WithoutBlockComments(text) ==
  LET opens == PairsAt(text, "/", "*")
  IN IF opens = {} THEN text
     ELSE LET p == FirstOf(opens)
              closes == {c \in PairsAt(text, "*", "/") : c >= p + 2}
          IN IF closes = {}
             THEN SubSeq(text, 1, p - 1) \o LineFeedsOf(SubSeq(text, p, Len(text)))
             ELSE LET c == FirstOf(closes)
                  IN SubSeq(text, 1, p - 1) \o LineFeedsOf(SubSeq(text, p, c + 1))
                       \o WithoutBlockComments(SubSeq(text, c + 2, Len(text)))

\* the non-empty trimmed lines of a text, joined by single spaces
JoinedLines(text) ==
  JoinWith(SelectSeq([n \in 1..Len(SplitLines(text)) |-> Trim(SplitLines(text)[n])],
                     LAMBDA line : line # <<>>),
           <<" ">>)

\* the script has two lines: code that ends inside a string literal, and code
\* without quotes followed by a // comment
IsOpenStringScript(text) ==
  /\ Len(SplitLines(text)) = 2
  /\ LET first == SplitLines(text)[1]
         second == SplitLines(text)[2]
     IN /\ Cardinality(QuotesIn(first)) = 1
        /\ \A t \in 1..Len(first) : first[t] \notin {"/", "\\"}
        /\ QuotesIn(second \o <<"/">>) \cap 1..(FirstOf(SlashesAfter(second \o <<"/">>, 0)) - 1) = {}
        /\ PairsAt(second, "/", "/") # {}
        /\ FirstOf(PairsAt(second, "/", "/")) = FirstOf(SlashesAfter(second, 0))

\* C24: the block-comment state is carried from line to line and the string
\* state is not.  In a script without quotes and without //, nothing between
\* a /* and the first */ that starts after it is rendered, on whatever lines
\* they stand, what follows the */ is rendered, and /*/ closes nothing; in a
\* script whose first line ends inside a string literal, the // comment of
\* the second line is still dropped.
C24_BlockCommentAcrossLines ==
  (/\ last.op = "ExecuteScript"
   /\ Returned
   /\ TypeOf(last.args[1]) = "string"
   /\ Len(last.args[1][2]) > 0) =>
    LET text == last.args[1][2]
        rendered == LinesWith(last.ret, DataPrefix \o ScriptPrefix)
    IN /\ (QuotesIn(text) = {} /\ PairsAt(text, "/", "/") = {}) =>
            rendered = <<DataPrefix \o ScriptPrefix \o JoinedLines(WithoutBlockComments(text))>>
       /\ IsOpenStringScript(text) =>
            LET second == SplitLines(text)[2]
            IN rendered
                 = <<DataPrefix \o ScriptPrefix \o Trim(SplitLines(text)[1]) \o <<" ">>
                       \o Trim(SubSeq(second, 1, FirstOf(PairsAt(second, "/", "/")) - 1))>>

C24_Witness ==
  /\ last.op = "ExecuteScript"
  /\ Returned
  /\ last.args[1] = Str(<<"a", " ", "/", "*", " ", "x", LF, " ", "y", " ", "*", "/", " ", "c">>)
  /\ last.lines = <<ScriptPrefix \o <<"a", " ", "c">> >>


\* C26: a MergeFragments event carries the line `settleDuration 300` whenever
\* the caller supplies no settleDuration, be the options argument omitted or
\* an object without settleDuration.
C26_SettleDurationDefault ==
  (/\ last.op = "MergeFragments"
   /\ Returned
   /\ TypeOf(last.args[2]) \in {"undefined", "object"}
   /\ TypeOf(OptGet(last.args[2], "settleDuration")) = "undefined") =>
    LinesWith(last.ret, DataPrefix \o SettleDurationPrefix)
      = <<DataPrefix \o SettleDurationPrefix \o <<"3", "0", "0">> >>


\* C27: contexts are independent: a call on one context leaves the flag, the
\* header set and the response of every other context as they were, and on
\* every context whose response is mutated in place each header of the set is
\* written exactly once, before the context's first event.
C27_ContextsIndependent ==
  /\ [][\A c \in Ctx :
          c # last'.ctx =>
            /\ headersSent'[c] = headersSent[c]
            /\ headers'[c] = headers[c]
            /\ resLog'[c] = resLog[c]]_vars
  /\ [](\A c \in Ctx :
          (MutatedInPlace(c) /\ Writes(c) >= 1) =>
            \A k \in 1..Len(headers[c]) :
              LET at == {i \in 1..Len(resLog[c]) :
                           resLog[c][i] = <<"setHeader", headers[c][k][1], headers[c][k][2]>>}
              IN /\ Cardinality(at) = 1
                 /\ \A i \in at : \A j \in 1..Len(resLog[c]) :
                      IsWrite(resLog[c][j]) => i < j)

\* events were written on two contexts, one after the other
C27_Witness ==
  /\ \A c \in 1..2 : MutatedInPlace(c) /\ Writes(c) >= 1
  /\ Writes(1) >= 2
  /\ last.ctx = 2


\* C21: reading is idempotent under merge: once the handler has stored the
\* result of a read, reading the same request again, or a request that
\* carries an empty JSON object, over the stored result resolves to the
\* stored result.
C21_RereadIsIdempotent ==
  (served >= 1 /\ read.status \notin {"idle", "awaitingJson"}) =>
    /\ read.status = "resolved"
    /\ read.signals = backendStore
    /\ read.value = backendStore

\* the request {"x":1} was read over {"x":0,"y":2}, stored, and read again
C21_Witness ==
  /\ served = 1
  /\ req \notin EmptyRequests
  /\ read.status = "resolved"
  /\ backendStore = Obj(<< <<"x", Num(1)>>, <<"y", Num(2)>> >>)
  /\ read.value = Obj(<< <<"x", Num(1)>>, <<"y", Num(2)>> >>)

====
